---- MODULE Spec2Model ----
(***************************************************************************)
(* A model of the Redis result cache of the movie agent (src/cache.py) and *)
(* of the memoized query tools that use it (src/agent.py).                 *)
(*                                                                         *)
(* Python values are tagged records, Python strings are TLA+ strings.      *)
(* json.dumps / json.loads / str() are computed on the text, character by  *)
(* character, so that a round trip is a fact about the two functions.      *)
(***************************************************************************)
EXTENDS Integers, Sequences, FiniteSets, TLC

(***************************************************************************)
(* Python values                                                           *)
(***************************************************************************)
PyNone == [t |-> "none"]
PyStr(s) == [t |-> "str", s |-> s]
PyInt(n) == [t |-> "int", n |-> n]
PyBool(b) == [t |-> "bool", b |-> b]
PyList(xs) == [t |-> "list", items |-> xs]
PyTuple(xs) == [t |-> "tuple", items |-> xs]
\* a dict in insertion order: keys[i] maps to vals[i]
PyDict(ks, vs) == [t |-> "dict", keys |-> ks, vals |-> vs]
\* any other object (a datetime, an ObjectId), known by its str() form
PyObj(r) == [t |-> "obj", repr |-> r]

\* characters of a string, as a sequence of one-character strings
Char(s, i) == SubSeq(s, i, i)

Digits == <<"0", "1", "2", "3", "4", "5", "6", "7", "8", "9">>

IsDigit(c) == \E d \in 1..10 : Digits[d] = c

DigitVal(c) == (CHOOSE d \in 1..10 : Digits[d] = c) - 1

(***************************************************************************)
(* json.dumps(value, default=str), cache.py:76.  Separators are the        *)
(* defaults ", " and ": ".  A tuple is written as an array, a dict key      *)
(* that is an int as its decimal string, an object json cannot encode as  *)
(* the string str(obj).                                                    *)
(***************************************************************************)
\* the characters lo..hi of s, each written as JSON writes it in a string
\* (the text is split in halves to keep the evaluation shallow)
JsonEscape(c) ==
    IF c = "\"" THEN "\\\""
    ELSE IF c = "\\" THEN "\\\\"
    ELSE IF c = "\n" THEN "\\n"
    ELSE c

RECURSIVE EscapeRange(_, _, _)
EscapeRange(s, lo, hi) ==
    IF lo > hi THEN ""
    ELSE IF lo = hi THEN JsonEscape(Char(s, lo))
    ELSE EscapeRange(s, lo, (lo + hi) \div 2) \o EscapeRange(s, (lo + hi) \div 2 + 1, hi)

JsonString(s) == "\"" \o EscapeRange(s, 1, Len(s)) \o "\""

RECURSIVE json_dumps(_), DumpItems(_, _), DumpPairs(_, _, _)
DumpKey(k) ==
    IF k.t = "str" THEN JsonString(k.s)
    ELSE IF k.t = "int" THEN JsonString(ToString(k.n))
    ELSE IF k.t = "bool" THEN JsonString(IF k.b THEN "true" ELSE "false")
    ELSE JsonString("null")

DumpItems(xs, i) ==
    IF i > Len(xs) THEN ""
    ELSE (IF i > 1 THEN ", " ELSE "") \o json_dumps(xs[i]) \o DumpItems(xs, i + 1)

DumpPairs(ks, vs, i) ==
    IF i > Len(ks) THEN ""
    ELSE (IF i > 1 THEN ", " ELSE "") \o DumpKey(ks[i]) \o ": "
         \o json_dumps(vs[i]) \o DumpPairs(ks, vs, i + 1)

json_dumps(v) ==
    CASE v.t = "none" -> "null"
      [] v.t = "bool" -> (IF v.b THEN "true" ELSE "false")
      [] v.t = "int" -> ToString(v.n)
      [] v.t = "str" -> JsonString(v.s)
      [] v.t = "list" -> "[" \o DumpItems(v.items, 1) \o "]"
      [] v.t = "tuple" -> "[" \o DumpItems(v.items, 1) \o "]"
      [] v.t = "dict" -> "{" \o DumpPairs(v.keys, v.vals, 1) \o "}"
      [] v.t = "obj" -> JsonString(v.repr)

\* json.dumps(value, indent=2, default=str), agent.py:101,172: each item and
\* each pair on a line of its own, indented by two spaces a level
RECURSIVE Spaces(_)
Spaces(n) == IF n <= 0 THEN "" ELSE " " \o Spaces(n - 1)

RECURSIVE json_dumps_indent(_, _), DumpItemsIndent(_, _, _), DumpPairsIndent(_, _, _, _)
DumpItemsIndent(xs, i, level) ==
    IF i > Len(xs) THEN ""
    ELSE (IF i > 1 THEN "," ELSE "") \o "\n" \o Spaces(2 * level)
         \o json_dumps_indent(xs[i], level) \o DumpItemsIndent(xs, i + 1, level)

DumpPairsIndent(ks, vs, i, level) ==
    IF i > Len(ks) THEN ""
    ELSE (IF i > 1 THEN "," ELSE "") \o "\n" \o Spaces(2 * level) \o DumpKey(ks[i]) \o ": "
         \o json_dumps_indent(vs[i], level) \o DumpPairsIndent(ks, vs, i + 1, level)

json_dumps_indent(v, level) ==
    CASE v.t \in {"list", "tuple"} ->
            IF v.items = <<>> THEN "[]"
            ELSE "[" \o DumpItemsIndent(v.items, 1, level + 1) \o "\n" \o Spaces(2 * level) \o "]"
      [] v.t = "dict" ->
            IF v.keys = <<>> THEN "{}"
            ELSE "{" \o DumpPairsIndent(v.keys, v.vals, 1, level + 1)
                 \o "\n" \o Spaces(2 * level) \o "}"
      [] OTHER -> json_dumps(v)

(***************************************************************************)
(* json.loads(text), cache.py:63: a recursive-descent parser.  A parse     *)
(* step returns [ok, val, next]; ok = FALSE is json.JSONDecodeError.       *)
(***************************************************************************)
ParseError == [ok |-> FALSE, val |-> PyNone, next |-> 0]

Parsed(v, n) == [ok |-> TRUE, val |-> v, next |-> n]

\* the first position from i that holds no white space
SkipWs(s, i) ==
    LET stops == {j \in i..Len(s) : Char(s, j) \notin {" ", "\n"}}
    IN  IF i > Len(s) \/ Char(s, i) \notin {" ", "\n"} THEN i
        ELSE IF stops = {} THEN Len(s) + 1
        ELSE CHOOSE j \in stops : \A m \in stops : j <= m

StartsAt(s, i, w) == i + Len(w) - 1 <= Len(s) /\ SubSeq(s, i, i + Len(w) - 1) = w

RECURSIVE ParseDigits(_, _, _)
ParseDigits(s, i, acc) ==
    IF i <= Len(s) /\ IsDigit(Char(s, i))
    THEN ParseDigits(s, i + 1, acc * 10 + DigitVal(Char(s, i)))
    ELSE Parsed(PyInt(acc), i)

\* the characters of a JSON string from position i (after the opening
\* quote): plain text up to the next quote or backslash, then the escape
SpecialsFrom(s, i) == {j \in i..Len(s) : Char(s, j) \in {"\"", "\\"}}

MinOf(S) == CHOOSE j \in S : \A m \in S : j <= m

Unescape(d) == IF d = "n" THEN "\n" ELSE d

RECURSIVE ParseChars(_, _, _)
ParseChars(s, i, acc) ==
    IF SpecialsFrom(s, i) = {} THEN ParseError
    ELSE LET j == MinOf(SpecialsFrom(s, i))
             text == acc \o SubSeq(s, i, j - 1)
         IN  IF \E m \in i..(j - 1) : Char(s, m) = "\n" THEN ParseError
             ELSE IF Char(s, j) = "\"" THEN Parsed(PyStr(text), j + 1)
             ELSE IF j + 1 > Len(s) \/ Char(s, j + 1) \notin {"\"", "\\", "n"} THEN ParseError
             ELSE ParseChars(s, j + 2, text \o Unescape(Char(s, j + 1)))

RECURSIVE ParseValue(_, _), ParseItems(_, _, _), ParsePairs(_, _, _, _)
ParseValue(s, i0) ==
    LET i == SkipWs(s, i0)
    IN  IF i > Len(s) THEN ParseError
        ELSE LET c == Char(s, i)
             IN  IF StartsAt(s, i, "null") THEN Parsed(PyNone, i + 4)
                 ELSE IF StartsAt(s, i, "true") THEN Parsed(PyBool(TRUE), i + 4)
                 ELSE IF StartsAt(s, i, "false") THEN Parsed(PyBool(FALSE), i + 5)
                 ELSE IF IsDigit(c) THEN ParseDigits(s, i, 0)
                 ELSE IF c = "-"
                 THEN IF i + 1 <= Len(s) /\ IsDigit(Char(s, i + 1))
                      THEN LET p == ParseDigits(s, i + 1, 0)
                           IN  Parsed(PyInt(0 - p.val.n), p.next)
                      ELSE ParseError
                 ELSE IF c = "\"" THEN ParseChars(s, i + 1, "")
                 ELSE IF c = "["
                 THEN LET j == SkipWs(s, i + 1)
                      IN  IF j <= Len(s) /\ Char(s, j) = "]"
                          THEN Parsed(PyList(<<>>), j + 1)
                          ELSE ParseItems(s, j, <<>>)
                 ELSE IF c = "{"
                 THEN LET j == SkipWs(s, i + 1)
                      IN  IF j <= Len(s) /\ Char(s, j) = "}"
                          THEN Parsed(PyDict(<<>>, <<>>), j + 1)
                          ELSE ParsePairs(s, j, <<>>, <<>>)
                 ELSE ParseError

ParseItems(s, i, acc) ==
    LET p == ParseValue(s, i)
    IN  IF ~p.ok THEN ParseError
        ELSE LET j == SkipWs(s, p.next)
             IN  IF j > Len(s) THEN ParseError
                 ELSE IF Char(s, j) = "," THEN ParseItems(s, j + 1, Append(acc, p.val))
                 ELSE IF Char(s, j) = "]" THEN Parsed(PyList(Append(acc, p.val)), j + 1)
                 ELSE ParseError

ParsePairs(s, i0, ks, vs) ==
    LET i == SkipWs(s, i0)
    IN  IF i > Len(s) \/ Char(s, i) # "\"" THEN ParseError
        ELSE LET k == ParseChars(s, i + 1, "")
             IN  IF ~k.ok THEN ParseError
                 ELSE LET c == SkipWs(s, k.next)
                      IN  IF c > Len(s) \/ Char(s, c) # ":" THEN ParseError
                          ELSE LET p == ParseValue(s, c + 1)
                               IN  IF ~p.ok THEN ParseError
                                   ELSE LET j == SkipWs(s, p.next)
                                            ks2 == Append(ks, k.val)
                                            vs2 == Append(vs, p.val)
                                        IN  IF j > Len(s) THEN ParseError
                                            ELSE IF Char(s, j) = ","
                                            THEN ParsePairs(s, j + 1, ks2, vs2)
                                            ELSE IF Char(s, j) = "}"
                                            THEN Parsed(PyDict(ks2, vs2), j + 1)
                                            ELSE ParseError

\* json.loads: the whole text must be one value (trailing text is an error)
WholeText(s, p) ==
    IF p.ok /\ SkipWs(s, p.next) > Len(s)
    THEN [ok |-> TRUE, val |-> p.val]
    ELSE [ok |-> FALSE, val |-> PyNone]

json_loads(s) == WholeText(s, ParseValue(s, 1))

(***************************************************************************)
(* str() and repr() of the argument values, as Python prints them          *)
(* (cache.py:49 formats str(args) and str(sorted(kwargs.items()))).        *)
(***************************************************************************)
\* the printable ASCII characters in code-point order: 32 (space) to 95 (_),
\* and 97 (a) to 126 (~)
AsciiLow ==
    " !\"#$%&'(" \o ")*+,-./0123456789:;<=>?@" \o "ABCDEFGHIJKLMNOPQRSTUVWXYZ"
    \o "[\\]^_"

AsciiHigh == "abcdefghijklmnopqrstuvwxyz{|}~"

\* ord(c)
Ord(c) ==
    IF \E i \in 1..Len(AsciiLow) : Char(AsciiLow, i) = c
    THEN 31 + (CHOOSE i \in 1..Len(AsciiLow) : Char(AsciiLow, i) = c)
    ELSE 96 + (CHOOSE i \in 1..Len(AsciiHigh) : Char(AsciiHigh, i) = c)

HasChar(s, c) == \E i \in 1..Len(s) : Char(s, i) = c

ReprEscape(c, q) ==
    IF c = q THEN "\\" \o q
    ELSE IF c = "\\" THEN "\\\\"
    ELSE IF c = "\n" THEN "\\n"
    ELSE c

RECURSIVE ReprRange(_, _, _, _)
ReprRange(s, q, lo, hi) ==
    IF lo > hi THEN ""
    ELSE IF lo = hi THEN ReprEscape(Char(s, lo), q)
    ELSE ReprRange(s, q, lo, (lo + hi) \div 2) \o ReprRange(s, q, (lo + hi) \div 2 + 1, hi)

\* repr of a str: single quotes, double quotes when it holds ' and no "
ReprStr(s) ==
    LET q == IF HasChar(s, "'") /\ ~HasChar(s, "\"") THEN "\"" ELSE "'"
    IN  q \o ReprRange(s, q, 1, Len(s)) \o q

RECURSIVE Repr(_), ReprItems(_, _), ReprPairs(_, _, _)
ReprItems(xs, i) ==
    IF i > Len(xs) THEN ""
    ELSE (IF i > 1 THEN ", " ELSE "") \o Repr(xs[i]) \o ReprItems(xs, i + 1)

ReprPairs(ks, vs, i) ==
    IF i > Len(ks) THEN ""
    ELSE (IF i > 1 THEN ", " ELSE "") \o Repr(ks[i]) \o ": " \o Repr(vs[i])
         \o ReprPairs(ks, vs, i + 1)

Repr(v) ==
    CASE v.t = "none" -> "None"
      [] v.t = "bool" -> (IF v.b THEN "True" ELSE "False")
      [] v.t = "int" -> ToString(v.n)
      [] v.t = "str" -> ReprStr(v.s)
      [] v.t = "list" -> "[" \o ReprItems(v.items, 1) \o "]"
      [] v.t = "tuple" ->
            "(" \o ReprItems(v.items, 1) \o (IF Len(v.items) = 1 THEN "," ELSE "") \o ")"
      [] v.t = "dict" -> "{" \o ReprPairs(v.keys, v.vals, 1) \o "}"
      [] v.t = "obj" -> v.repr

\* the order of Python strings: by code point, a proper prefix first
RECURSIVE StrLessFrom(_, _, _)
StrLessFrom(a, b, i) ==
    IF i > Len(b) THEN FALSE
    ELSE IF i > Len(a) THEN TRUE
    ELSE IF Char(a, i) = Char(b, i) THEN StrLessFrom(a, b, i + 1)
    ELSE Ord(Char(a, i)) < Ord(Char(b, i))

StrLess(a, b) == StrLessFrom(a, b, 1)

(***************************************************************************)
(* kwargs is a dict: a sequence of <<name, value>> items in the order the   *)
(* caller supplied them, the names distinct.  sorted(kwargs.items())       *)
(* orders the items by name (the names differ, so no value is compared).   *)
(***************************************************************************)
RECURSIVE InsertItem(_, _)
InsertItem(sorted, it) ==
    IF sorted = <<>> THEN <<it>>
    ELSE IF StrLess(it[1], Head(sorted)[1]) THEN <<it>> \o sorted
    ELSE <<Head(sorted)>> \o InsertItem(Tail(sorted), it)

RECURSIVE SortItemsFrom(_, _, _)
SortItemsFrom(items, i, acc) ==
    IF i > Len(items) THEN acc
    ELSE SortItemsFrom(items, i + 1, InsertItem(acc, items[i]))

\* variant for KeyDeterminism: the items in the order the caller wrote them
UnsortedItems(kwargs) == kwargs

sorted_items(kwargs) == SortItemsFrom(kwargs, 1, <<>>)

ItemTuples(items) ==
    PyList([i \in 1..Len(items) |-> PyTuple(<<PyStr(items[i][1]), items[i][2]>>)])

(***************************************************************************)
(* hashlib.md5(...).hexdigest(), cache.py:51.  The digest is taken as      *)
(* collision-free: it is modelled by an injective function into strings    *)
(* of hexadecimal digits, the hexadecimal form of the bytes hashed.        *)
(***************************************************************************)
HexDigits == "0123456789abcdef"

HexByte(n) == Char(HexDigits, (n \div 16) + 1) \o Char(HexDigits, (n % 16) + 1)

RECURSIVE HexRange(_, _, _)
HexRange(s, lo, hi) ==
    IF lo > hi THEN ""
    ELSE IF lo = hi THEN HexByte(Ord(Char(s, lo)))
    ELSE HexRange(s, lo, (lo + hi) \div 2) \o HexRange(s, (lo + hi) \div 2 + 1, hi)

md5_hexdigest(s) == HexRange(s, 1, Len(s))

(***************************************************************************)
(* RedisCache._generate_key(prefix, *args, **kwargs), cache.py:46-52       *)
(***************************************************************************)
\* variant for NamespaceClear: the keys made under another namespace
KeyNamespaceOther == "cache"

KeyNamespace == "movie_cache"

\* variant for KeyDiscrimination: the keyword arguments left out of the key
KeyDataNoKwargs(prefix, args, kwargs) == prefix \o ":" \o Repr(PyTuple(args))

KeyData(prefix, args, kwargs) ==
    prefix \o ":" \o Repr(PyTuple(args)) \o ":" \o Repr(ItemTuples(sorted_items(kwargs)))

_generate_key(prefix, args, kwargs) ==
    KeyNamespace \o ":" \o prefix \o ":" \o md5_hexdigest(KeyData(prefix, args, kwargs))

(***************************************************************************)
(* Bounds of the model                                                     *)
(***************************************************************************)
\* callers that may have an operation in flight
NumCallers == 2
\* the clock stops at MaxTicks steps of TickSeconds
MaxTicks == 2

\* one step of the clock, in seconds
TickSeconds == 1800

Callers == 1..NumCallers

(***************************************************************************)
(* The state                                                               *)
(***************************************************************************)
VARIABLES
    constructed,  \* RedisCache.__init__ has run
    enabled,      \* RedisCache.enabled
    client,       \* RedisCache.client: "None" or "Redis"
    conn,         \* the client's connection: "none", "open", "closed"
    redis,        \* the server's keyspace: key -> entry
    now,          \* the server's clock, in seconds
    source,       \* the movie collection the queries read: a place in SourceTimeline
    task,         \* per caller: the operation in flight
    last,         \* the operation that completed last, and what it returned
    hist,         \* history of the store, kept for the properties
    keyIn,        \* _generate_key: the arguments of two calls
    keyOut,       \* _generate_key: the keys returned for them
    life          \* the process that holds the agent, from launch to exit

cacheVars == <<constructed, enabled, client, conn>>
keyVars == <<keyIn, keyOut>>
vars == <<constructed, enabled, client, conn, redis, now, source, task, last, hist,
          keyIn, keyOut, life>>

(***************************************************************************)
(* The Redis server, as redis-py shows it to cache.py                      *)
(***************************************************************************)
NoEntry == [present |-> FALSE, raw |-> "", exp |-> 0]

Entry(raw, exp) == [present |-> TRUE, raw |-> raw, exp |-> exp]

\* KEYS pattern: glob matching, * matches any run of characters
RECURSIVE GlobFrom(_, _, _, _)
GlobFrom(p, i, s, j) ==
    IF i > Len(p) THEN j > Len(s)
    ELSE IF Char(p, i) = "*" /\ i = Len(p) THEN TRUE
    ELSE IF Char(p, i) = "*"
    THEN GlobFrom(p, i + 1, s, j) \/ (j <= Len(s) /\ GlobFrom(p, i, s, j + 1))
    ELSE j <= Len(s) /\ Char(p, i) = Char(s, j) /\ GlobFrom(p, i + 1, s, j + 1)

GlobMatch(p, s) == GlobFrom(p, 1, s, 1)

\* a backend call either succeeds, is refused (it fails before it takes
\* effect) or is lost (it takes effect and the reply never arrives)
FailModes == {"ok", "refused", "lost"}

Applied(fail) == fail \in {"ok", "lost"}

Failed(fail) == fail # "ok"

\* variant for FreshAtZeroTtl: SETEX taking any expiry
RedisSetexAnyTtl(db, t, k, ttl, raw, fail) ==
    IF Applied(fail) THEN [db EXCEPT ![k] = Entry(raw, t + ttl)] ELSE db

\* SETEX key ttl value: an expiry that is not positive is an error reply
RedisSetex(db, t, k, ttl, raw, fail) ==
    IF Applied(fail) /\ ttl > 0 THEN [db EXCEPT ![k] = Entry(raw, t + ttl)] ELSE db

SetexRaises(ttl, fail) == Failed(fail) \/ ttl <= 0

\* variant for ClearBatch: DEL removing every key of the server
RedisDelAll(db, ks, fail) ==
    IF Applied(fail) THEN [k \in DOMAIN db |-> NoEntry] ELSE db

\* DEL key ...: the keys removed, and their number
RedisDel(db, ks, fail) ==
    IF Applied(fail) THEN [k \in DOMAIN db |-> IF k \in ks THEN NoEntry ELSE db[k]] ELSE db

RedisDelCount(db, ks) == Cardinality({k \in ks : db[k].present})

\* variant for PatternScoping: KEYS answering with every key
RedisKeysAll(db, pattern) == {k \in DOMAIN db : db[k].present}

\* KEYS pattern
RedisKeys(db, pattern) == {k \in DOMAIN db : db[k].present /\ GlobMatch(pattern, k)}

\* variant for BoundedStaleness: entries outliving their expiry
ExpireNever(db, t) == db

\* entries whose expiry has passed are gone
Expire(db, t) == [k \in DOMAIN db |-> IF db[k].present /\ db[k].exp <= t THEN NoEntry ELSE db[k]]

(***************************************************************************)
(* The movie collection and the query tools, agent.py:79-222               *)
(***************************************************************************)
\* a document of the collection (the rating a whole number)
Movie(title, year, genre, director, stars, rating) ==
    PyDict(<<PyStr("title"), PyStr("year"), PyStr("genre"), PyStr("director"),
             PyStr("stars"), PyStr("imdb_rating")>>,
           <<PyStr(title), PyInt(year), PyStr(genre), PyStr(director),
             PyStr(stars), PyInt(rating)>>)

\* the documents of the collection in each state of the data source;
\* "down": the database cannot be reached and find() raises.  The data
\* source goes through these states in this order, from any of them.
SourceTimeline == <<"v1", "down", "v2">>

Collection(src) ==
    IF src = "v1" THEN <<Movie("Heat", 1995, "Action", "Mann", "Pacino", 8)>>
    ELSE <<Movie("Ida", 2013, "Drama", "Pawel", "Kulesza", 7),
           Movie("Heat", 1995, "Crime", "Mann", "Pacino", 8)>>

\* "$options": "i": letters compare without regard to case
UpperLetters == "ABCDEFGHIJKLMNOPQRSTUVWXYZ"

LowerLetters == "abcdefghijklmnopqrstuvwxyz"

Lower(c) ==
    IF \E i \in 1..Len(UpperLetters) : Char(UpperLetters, i) = c
    THEN Char(LowerLetters, CHOOSE i \in 1..Len(UpperLetters) : Char(UpperLetters, i) = c)
    ELSE c

RECURSIVE LowerRange(_, _, _)
LowerRange(s, lo, hi) ==
    IF lo > hi THEN ""
    ELSE IF lo = hi THEN Lower(Char(s, lo))
    ELSE LowerRange(s, lo, (lo + hi) \div 2) \o LowerRange(s, (lo + hi) \div 2 + 1, hi)

LowerStr(s) == LowerRange(s, 1, Len(s))

\* {"$regex": needle}: the field holds needle somewhere (needle is plain
\* text, with none of the characters a regular expression gives a meaning)
RECURSIVE ContainsFrom(_, _, _)
ContainsFrom(hay, needle, i) ==
    i + Len(needle) - 1 <= Len(hay)
    /\ (SubSeq(hay, i, i + Len(needle) - 1) = needle \/ ContainsFrom(hay, needle, i + 1))

Contains(hay, needle) == ContainsFrom(LowerStr(hay), LowerStr(needle), 1)

FieldOf(movie, field) ==
    movie.vals[CHOOSE i \in 1..Len(movie.keys) : movie.keys[i] = PyStr(field)]

RECURSIVE FindFrom(_, _, _, _)
FindFrom(docs, field, needle, i) ==
    IF i > Len(docs) THEN <<>>
    ELSE (IF Contains(FieldOf(docs[i], field).s, needle) THEN <<docs[i]>> ELSE <<>>)
         \o FindFrom(docs, field, needle, i + 1)

\* the projection of find: the named fields of each document, in the
\* order the document holds them
AllFields == {"title", "year", "genre", "director", "stars", "imdb_rating"}

ProjectDoc(doc, fields) ==
    LET keep == SelectSeq([i \in 1..Len(doc.keys) |-> i],
                          LAMBDA i : doc.keys[i].s \in fields)
    IN  PyDict([j \in 1..Len(keep) |-> doc.keys[keep[j]]],
               [j \in 1..Len(keep) |-> doc.vals[keep[j]]])

Project(docs, fields) == [i \in 1..Len(docs) |-> ProjectDoc(docs[i], fields)]

\* the common shape of the query tools: find, then the JSON text of the
\* documents, a "No movies found" message, or the error message
\* "if not movies: return <message>", then
\* "return json.dumps(movies, indent=2, default=str)"
FoundOrNone(movies, none) ==
    IF movies = <<>> THEN PyStr(none) ELSE PyStr(json_dumps_indent(PyList(movies), 0))

QueryTool(src, field, needle, fields, none, error) ==
    IF src = "down" THEN PyStr(error \o "connection refused")
    ELSE FoundOrNone(Project(FindFrom(Collection(src), field, needle, 1), fields),
                     none \o "'" \o needle \o "'")

search_movies_by_title(src, title) ==
    QueryTool(src, "title", title, AllFields,
              "No movies found matching ", "Error searching movies: ")

get_movies_by_director(src, director) ==
    QueryTool(src, "director", director, {"title", "year", "imdb_rating", "genre"},
              "No movies found for director ", "Error getting movies by director: ")

get_movies_by_genre(src, genre) ==
    QueryTool(src, "genre", genre, {"title", "year", "imdb_rating", "genre", "director"},
              "No movies found for genre ", "Error getting movies by genre: ")

get_movies_with_actor(src, actor) ==
    QueryTool(src, "stars", actor, {"title", "year", "imdb_rating", "stars", "director"},
              "No movies found with actor ", "Error getting movies with actor: ")

\* int(x) of a whole number or of a text of decimal digits
int(v) ==
    IF v.t = "int" THEN [ok |-> TRUE, n |-> v.n]
    ELSE IF v.t = "str" /\ v.s # "" /\ \A i \in 1..Len(v.s) : IsDigit(Char(v.s, i))
    THEN [ok |-> TRUE, n |-> ParseDigits(v.s, 1, 0).val.n]
    ELSE [ok |-> FALSE, n |-> 0]

\* str(x) inside an f-string
str(v) == IF v.t = "str" THEN v.s ELSE Repr(v)

IntError(v) == "invalid literal for int() with base 10: " \o Repr(v)

\* cursor.sort("imdb_rating", -1): the best rated first
InsertByRating(sorted, doc) ==
    LET n == Cardinality({i \in 1..Len(sorted) :
                             FieldOf(sorted[i], "imdb_rating").n >= FieldOf(doc, "imdb_rating").n})
    IN  SubSeq(sorted, 1, n) \o <<doc>> \o SubSeq(sorted, n + 1, Len(sorted))

RECURSIVE SortByRating(_, _, _)
SortByRating(docs, i, acc) ==
    IF i > Len(docs) THEN acc ELSE SortByRating(docs, i + 1, InsertByRating(acc, docs[i]))

\* the cap on the number of top rated movies returned
MaxTopRated == 50

\* cursor.limit(n): the first n documents, all of them when n is 0
Limit(docs, n) == IF n = 0 \/ n >= Len(docs) THEN docs ELSE SubSeq(docs, 1, n)

get_top_rated_movies(src, limit) ==
    IF ~int(limit).ok THEN PyStr("Error getting top rated movies: " \o IntError(limit))
    ELSE IF src = "down" THEN PyStr("Error getting top rated movies: connection refused")
    ELSE PyStr(json_dumps_indent(
             PyList(Project(Limit(SortByRating(Collection(src), 1, <<>>),
                                  IF int(limit).n <= MaxTopRated THEN int(limit).n
                                  ELSE MaxTopRated),
                            {"title", "year", "imdb_rating", "director", "genre"})), 0))

get_movies_by_year_range(src, start_year, end_year) ==
    IF ~int(start_year).ok
    THEN PyStr("Error getting movies by year range: " \o IntError(start_year))
    ELSE IF ~int(end_year).ok
    THEN PyStr("Error getting movies by year range: " \o IntError(end_year))
    ELSE IF src = "down" THEN PyStr("Error getting movies by year range: connection refused")
    ELSE FoundOrNone(
             Project(SelectSeq(Collection(src),
                               LAMBDA d : /\ FieldOf(d, "year").n >= int(start_year).n
                                          /\ FieldOf(d, "year").n <= int(end_year).n),
                     {"title", "year", "imdb_rating", "director"}),
             "No movies found between " \o str(start_year) \o " and " \o str(end_year))

\* the count of the documents and the first and last year (the averages
\* and the directors' table, which hold fractions, are left out)
Statistics(total, years) ==
    PyDict(<<PyStr("total_movies"), PyStr("year_range")>>,
           <<PyInt(total),
             PyDict(<<PyStr("earliest"), PyStr("latest")>>,
                    <<PyInt(CHOOSE y \in years : \A z \in years : y <= z),
                      PyInt(CHOOSE y \in years : \A z \in years : y >= z)>>)>>)

YearsOf(docs) == {FieldOf(docs[i], "year").n : i \in 1..Len(docs)}

get_movie_statistics(src) ==
    IF src = "down" THEN PyStr("Error getting statistics: connection refused")
    ELSE PyStr(json_dumps_indent(
             Statistics(Len(Collection(src)), YearsOf(Collection(src))), 0))

\* the decorated tools: @cache_result(ttl=..., key_prefix=...)
TitleTtl == 1800
DirectorTtl == 3600
TopRatedTtl == 3600
GenreTtl == 3600
ActorTtl == 3600

\* def cache_result(ttl: int = 3600, key_prefix: str = "query")
DefaultTtl == 3600

\* variant for CoverageAndTtls: every tool decorated
DecoratedAll ==
    {"search_movies_by_title", "get_movies_by_director", "get_top_rated_movies",
     "get_movies_by_genre", "get_movies_with_actor",
     "get_movies_by_year_range", "get_movie_statistics"}

Decorated ==
    {"search_movies_by_title", "get_movies_by_director", "get_top_rated_movies",
     "get_movies_by_genre", "get_movies_with_actor"}

\* variant for MissPath: every decorator left at the default, ttl=3600
DecoratorTtlDefault(fn) == DefaultTtl

DecoratorTtl(fn) ==
    CASE fn = "search_movies_by_title" -> TitleTtl
      [] fn = "get_movies_by_director" -> DirectorTtl
      [] fn = "get_top_rated_movies" -> TopRatedTtl
      [] fn = "get_movies_by_genre" -> GenreTtl
      [] fn = "get_movies_with_actor" -> ActorTtl
      [] OTHER -> DefaultTtl

DecoratorPrefix(fn) ==
    CASE fn = "search_movies_by_title" -> "search_title"
      [] fn = "get_movies_by_director" -> "director"
      [] fn = "get_top_rated_movies" -> "top_rated"
      [] fn = "get_movies_by_genre" -> "genre"
      [] fn = "get_movies_with_actor" -> "actor"
      [] OTHER -> "query"

\* func(self, *args): the tool itself, reading the data source
RunTool(fn, args, src) ==
    CASE fn = "search_movies_by_title" -> search_movies_by_title(SourceTimeline[src], args[1].s)
      [] fn = "get_movies_by_director" -> get_movies_by_director(SourceTimeline[src], args[1].s)
      [] fn = "get_top_rated_movies" -> get_top_rated_movies(SourceTimeline[src], args[1])
      [] fn = "get_movies_by_genre" -> get_movies_by_genre(SourceTimeline[src], args[1].s)
      [] fn = "get_movies_with_actor" -> get_movies_with_actor(SourceTimeline[src], args[1].s)
      [] fn = "get_movies_by_year_range" ->
            get_movies_by_year_range(SourceTimeline[src], args[1], args[2])
      [] OTHER -> get_movie_statistics(SourceTimeline[src])

(***************************************************************************)
(* The inputs of the model                                                 *)
(***************************************************************************)
\* the calls of the decorated tools that the callers make
ToolCalls ==
    { <<"search_movies_by_title", <<PyStr("Heat")>> >>,
      <<"get_movies_by_genre", <<PyStr("Drama")>> >> }

\* the calls of the other tools, as the agent's tool functions make them,
\* agent.py:388-411
MoreToolCalls ==
    { <<"get_movies_by_director", <<PyStr("Mann")>> >>,
      <<"get_top_rated_movies", <<PyStr("1")>> >>,
      <<"get_movies_with_actor", <<PyStr("Pacino")>> >>,
      <<"get_movies_by_year_range", <<PyInt(1990), PyInt(2000)>> >>,
      <<"get_movie_statistics", <<>> >> }

AllToolCalls == ToolCalls \cup MoreToolCalls

\* cache_key = cache._generate_key(key_prefix, *args, **kwargs), cache.py:165
\* (the keys of the calls made are computed once and looked up)
KeyTable ==
    [tc \in AllToolCalls |-> _generate_key(DecoratorPrefix(tc[1]), tc[2], <<>>)] @@ <<>>

KeyOfCall(fn, args) == KeyTable[<<fn, args>>]

ToolKeys == {KeyTable[tc] : tc \in ToolCalls}

\* the results of the calls made, computed once and looked up
FuncTable ==
    [tc \in AllToolCalls, src \in 1..Len(SourceTimeline) |-> RunTool(tc[1], tc[2], src)] @@ <<>>

Func(fn, args, src) == FuncTable[<<fn, args>>, src]

\* the keys the tests of the store use, test_cache.py:34,103-106
DirectKeys == {"test:1", "other:1"}

AllToolKeys == {KeyTable[tc] : tc \in AllToolCalls}

AllKeys == AllToolKeys \cup DirectKeys

\* test_cache.py:33 and 103, and a value json writes in another form
TestData == PyDict(<<PyStr("movie"), PyStr("year")>>, <<PyStr("The Matrix"), PyInt(1999)>>)

DirectValues == {TestData, PyStr(""), PyTuple(<<PyInt(1)>>)}

ShortTtl == 60

DirectTtls == {0, ShortTtl, GenreTtl}

\* the set calls made: every value and ttl on the first key, the test's one
\* on the other (test_cache.py:106)
DirectSets ==
    {<<"test:1", v, ttl>> : v \in DirectValues, ttl \in DirectTtls} \cup {<<"other:1", TestData, ShortTtl>>}

ClearPatterns == {"movie_cache:*", "test:*"}

\* the patterns an administrator clears the tools' entries with (api.py:317)
ToolPatterns == {"movie_cache:*", "movie_cache:genre:*"}

InfoReplies == {[hits |-> 0, misses |-> 0, mem |-> "1.00M"], [hits |-> 1, misses |-> 2, mem |-> "1.05M"]}

\* what another client of the shared server may leave under a key
ForeignRaws == {"{oops", ""}

Horizon == (MaxTicks + 1) * TickSeconds

\* the values and texts that can reach the store, with their JSON forms
\* computed once and looked up
KnownValues ==
    DirectValues \cup {FuncTable[tc, src] : tc \in AllToolCalls, src \in 1..Len(SourceTimeline)}

\* the entry of a table computed beforehand, or the value computed now
LookUp(table, x, computed) == IF x \in DOMAIN table THEN table[x] ELSE computed

DumpsTable == [v \in KnownValues |-> json_dumps(v)]

\* variant for RoundTrip: str(value) stored in place of its JSON text
DumpsStr(v) == Repr(v)

Dumps(v) == LookUp(DumpsTable, v, json_dumps(v))

KnownRaws == ForeignRaws \cup {DumpsTable[v] : v \in KnownValues}

LoadsTable == [raw \in KnownRaws |-> json_loads(raw)]

Loads(raw) == LookUp(LoadsTable, raw, json_loads(raw))

(***************************************************************************)
(* Outcomes of a method: a value returned, or an exception raised          *)
(***************************************************************************)
Return(v) == [raised |-> FALSE, ret |-> v]

Raise == [raised |-> TRUE, ret |-> PyNone]

\* variant for FailOpen: no except clause, the exception goes up
TryExceptNone(body, handler) == body

\* try: body / except Exception: return handler
TryExcept(body, handler) == IF body.raised THEN Return(handler) ELSE body

\* variant for DisabledStoreInert: the guard left out
NotUsableNever(en, cl) == FALSE

\* "if not self.enabled or not self.client", cache.py:56,72,86,99,115
NotUsable(en, cl) == ~en \/ cl = "None"

(***************************************************************************)
(* RedisCache.get, cache.py:54-68                                          *)
(***************************************************************************)
\* return json.loads(value): p is what the parser made of the text
ReturnLoaded(p) == IF p.ok THEN Return(p.val) ELSE Raise

ReturnLoadedOrText(p, raw) == IF p.ok THEN Return(p.val) ELSE Return(PyStr(raw))

\* variant for CorruptIsMiss: a text that does not decode is returned as it is
GetBodyRaw(reply, fail) ==
    IF Failed(fail) THEN Raise
    ELSE IF reply.present /\ reply.raw # ""
    THEN ReturnLoadedOrText(Loads(reply.raw), reply.raw)
    ELSE Return(PyNone)

\* the try body: reply is what client.get returned (present = FALSE: None)
GetBody(reply, fail) ==
    IF Failed(fail) THEN Raise
    ELSE IF reply.present /\ reply.raw # ""
    THEN ReturnLoaded(Loads(reply.raw))
    ELSE Return(PyNone)

get(en, cl, reply, fail) ==
    IF NotUsable(en, cl) THEN Return(PyNone)
    ELSE TryExcept(GetBody(reply, fail), PyNone)

(***************************************************************************)
(* RedisCache.set, cache.py:70-82                                          *)
(***************************************************************************)
SetBody(ttl, fail) == IF SetexRaises(ttl, fail) THEN Raise ELSE Return(PyBool(TRUE))

set(en, cl, ttl, fail) ==
    IF NotUsable(en, cl) THEN Return(PyBool(FALSE))
    ELSE TryExcept(SetBody(ttl, fail), PyBool(FALSE))

\* variant for NoSingleFlight: an entry already there is left as it is
SetEffectIfAbsent(en, cl, db, t, k, v, ttl, fail) ==
    IF NotUsable(en, cl) \/ db[k].present THEN db
    ELSE RedisSetex(db, t, k, ttl, Dumps(v), fail)

\* variant for Expiry: the entry written with the default ttl
SetEffectDefaultTtl(en, cl, db, t, k, v, ttl, fail) ==
    IF NotUsable(en, cl) THEN db
    ELSE RedisSetex(db, t, k, IF ttl > 0 THEN GenreTtl ELSE ttl, Dumps(v), fail)

\* what set leaves in the server
SetEffect(en, cl, db, t, k, v, ttl, fail) ==
    IF NotUsable(en, cl) THEN db ELSE RedisSetex(db, t, k, ttl, Dumps(v), fail)

(***************************************************************************)
(* RedisCache.delete, cache.py:84-95                                       *)
(***************************************************************************)
DeleteBody(fail) == IF Failed(fail) THEN Raise ELSE Return(PyBool(TRUE))

\* variant for BackendFailureContained: the except clause returns True
DeleteTrueOnError(en, cl, fail) ==
    IF NotUsable(en, cl) THEN Return(PyBool(FALSE))
    ELSE TryExcept(DeleteBody(fail), PyBool(TRUE))

delete(en, cl, fail) ==
    IF NotUsable(en, cl) THEN Return(PyBool(FALSE))
    ELSE TryExcept(DeleteBody(fail), PyBool(FALSE))

\* variant for DeleteIdempotent: the DEL not issued
DeleteEffectNone(en, cl, db, k, fail) == db

DeleteEffect(en, cl, db, k, fail) ==
    IF NotUsable(en, cl) THEN db ELSE RedisDel(db, {k}, fail)

(***************************************************************************)
(* RedisCache.clear_pattern, cache.py:97-111: two backend calls, KEYS and  *)
(* then DEL of the keys found.                                             *)
(***************************************************************************)
\* after client.keys(pattern): keys is the list it returned
ClearKeysBody(keys, fail) ==
    IF Failed(fail) THEN Raise ELSE Return(PyInt(0))

\* after client.delete(*keys): count is the number it returned
ClearDeleteBody(count, fail) ==
    IF Failed(fail) THEN Raise ELSE Return(PyInt(count))

clear_pattern_keys(en, cl, keys, fail) ==
    IF NotUsable(en, cl) THEN Return(PyInt(0))
    ELSE TryExcept(ClearKeysBody(keys, fail), PyInt(0))

clear_pattern_delete(count, fail) == TryExcept(ClearDeleteBody(count, fail), PyInt(0))

\* "if keys:": the DEL is issued only for a non-empty list
ClearGoesOn(en, cl, keys, fail) == ~NotUsable(en, cl) /\ ~Failed(fail) /\ keys # {}

(***************************************************************************)
(* RedisCache.get_stats, cache.py:113-136                                  *)
(***************************************************************************)
\* a float with two decimals, held as its number of hundredths
PyFloat(h) == [t |-> "float", hundredths |-> h]

\* variant for HitRateArithmetic: the quotient cut off after two decimals
RoundPercentFloor(num, den) == (num * 10000) \div den

\* round(x, 2) of x = num / den * 100, in hundredths (ties to even)
RoundPercent(num, den) ==
    LET q == (num * 10000) \div den
        r == (num * 10000) % den
    IN  IF 2 * r > den THEN q + 1
        ELSE IF 2 * r = den THEN (IF q % 2 = 0 THEN q ELSE q + 1)
        ELSE q

Max(a, b) == IF a >= b THEN a ELSE b

HitRate(hits, misses) == PyFloat(RoundPercent(hits, Max(hits + misses, 1)))

StatsDisabled == PyDict(<<PyStr("enabled")>>, <<PyBool(FALSE)>>)

StatsError(msg) ==
    PyDict(<<PyStr("enabled"), PyStr("connected"), PyStr("error")>>,
           <<PyBool(TRUE), PyBool(FALSE), PyStr(msg)>>)

StatsOk(info, keysCount) ==
    PyDict(<<PyStr("enabled"), PyStr("connected"), PyStr("keys_count"),
             PyStr("used_memory"), PyStr("hits"), PyStr("misses"), PyStr("hit_rate")>>,
           <<PyBool(TRUE), PyBool(TRUE), PyInt(keysCount), PyStr(info.mem),
             PyInt(info.hits), PyInt(info.misses), HitRate(info.hits, info.misses)>>)

\* the text of the exception a failed backend call raises
ErrorText(fail) == IF fail = "lost" THEN "Timeout reading from socket" ELSE "Connection reset by peer"

StatsBody(info, keysCount, fail) ==
    IF Failed(fail) THEN Raise ELSE Return(StatsOk(info, keysCount))

get_stats(en, cl, info, keysCount, fail) ==
    IF NotUsable(en, cl) THEN Return(StatsDisabled)
    ELSE TryExcept(StatsBody(info, keysCount, fail), StatsError(ErrorText(fail)))

(***************************************************************************)
(* RedisCache.__init__, cache.py:20-44, and RedisCache.close, 138-145      *)
(***************************************************************************)
\* variant for ConstructionFixesEnabled: enabled set ahead of the try
RedisCacheInitEnabled(pingOk) ==
    IF pingOk THEN [enabled |-> TRUE, client |-> "Redis", conn |-> "open"]
    ELSE [enabled |-> TRUE, client |-> "None", conn |-> "none"]

\* the attributes the constructor leaves: pingOk is "redis.Redis(...) and
\* client.ping() raised nothing"
RedisCacheInit(pingOk) ==
    IF pingOk THEN [enabled |-> TRUE, client |-> "Redis", conn |-> "open"]
    ELSE [enabled |-> FALSE, client |-> "None", conn |-> "none"]

\* close(): "if self.client:" then client.close(), any exception logged
CloseConn(cl, cn, fail) == IF cl # "None" /\ ~Failed(fail) THEN "closed" ELSE cn

\* the try body of close: client.close()
CloseBody(fail) == IF Failed(fail) THEN Raise ELSE Return(PyNone)

\* variant for CloseSafe: client.close() called without "if self.client:"
CloseUnguarded(cl, fail) ==
    IF cl = "None" THEN Raise ELSE TryExcept(CloseBody(fail), PyNone)

\* what close returns
close(cl, fail) ==
    IF cl = "None" THEN Return(PyNone) ELSE TryExcept(CloseBody(fail), PyNone)

\* a command on a client whose connections were closed opens a new one
AfterCommand(en, cl, cn) == IF NotUsable(en, cl) THEN cn ELSE "open"

(***************************************************************************)
(* History kept for the properties                                         *)
(***************************************************************************)
\* the longest run of calls counted
MaxStreak == 3

NoWrite == [on |-> FALSE, val |-> PyNone, ttl |-> 0, at |-> 0]

NoStreak == [on |-> FALSE, val |-> PyNone, calls |-> 0, execs |-> 0, same |-> TRUE]

\* where the entry of a key comes from: the state of the data source its
\* value was computed from, when that was read, and when the set took effect
NoOrigin == [on |-> FALSE, src |-> 0, readAt |-> 0, setAt |-> 0]

Min(a, b) == IF a <= b THEN a ELSE b

RECURSIVE IsJsonValue(_)
IsJsonValue(v) ==
    CASE v.t \in {"none", "bool", "int", "str"} -> TRUE
      [] v.t = "list" -> \A i \in 1..Len(v.items) : IsJsonValue(v.items[i])
      [] v.t = "dict" -> \A i \in 1..Len(v.keys) : v.keys[i].t = "str" /\ IsJsonValue(v.vals[i])
      [] OTHER -> FALSE

\* the keys ks were deleted or overwritten from outside
Forget(h, ks) ==
    [h EXCEPT !.wrote = [k \in AllKeys |-> IF k \in ks THEN NoWrite ELSE @[k]],
              !.streak = [k \in AllKeys |-> IF k \in ks THEN NoStreak ELSE @[k]],
              !.origin = [k \in AllKeys |-> IF k \in ks THEN NoOrigin ELSE @[k]]]

\* set(k, v, ttl) was issued at time t; fail tells how the SETEX went
NoteSet(h, usable, k, v, ttl, t, fail) ==
    IF ~usable \/ ttl <= 0 \/ fail = "refused" THEN h
    ELSE IF fail = "lost" THEN Forget(h, {k})
    ELSE [h EXCEPT !.wrote[k] = [on |-> TRUE, val |-> v, ttl |-> ttl, at |-> t]]

IdleTask == [pc |-> "idle", fn |-> "", args |-> <<>>, key |-> "", result |-> PyNone,
             keys |-> {}, pattern |-> "", berr |-> FALSE, found |-> "",
             src |-> 0, readAt |-> 0]

Done(c, op, fn, args, key, out, bcalls, berr, execs) ==
    [caller |-> c, op |-> op, fn |-> fn, args |-> args, key |-> key, ret |-> out.ret,
     raised |-> out.raised, bcalls |-> bcalls, berr |-> berr, execs |-> execs, found |-> "",
     src |-> 0, readAt |-> 0]

\* the step taken completed no operation
NoOp == Done(0, "none", "", <<>>, "", Return(PyNone), 0, FALSE, 0)

\* what the wrapper's cache.get came upon when it returned None
Found(reply, fail) ==
    IF Failed(fail) THEN "failed"
    ELSE IF ~reply.present THEN "absent"
    ELSE IF reply.raw = "" THEN "empty"
    ELSE IF Loads(reply.raw).ok THEN "null"
    ELSE "undecodable"

\* the conversation of the agent's session: the messages of the session's
\* document in MongoDB (stored), self.conversation_history (history),
\* messages being known by the number of the save that made them; saves
\* and faults count the calls of _save_message and the persistence calls
\* that raised, and tookEffect tells that one of those changed the
\* document all the same
NoChat ==
    [open |-> FALSE, stored |-> <<>>, history |-> <<>>, saves |-> 0, faults |-> 0,
     tookEffect |-> FALSE]

\* no process launched yet: no agent, no MongoDB client, the store's
\* close() not called, MovieAgent.close() executed 0 times (closes); the
\* module globals agent (api.py:40) and
\* _cache_instance (cache.py:184) are None, written 0, and no object has
\* been made for either (objects are numbered in the order they are made)
NotLaunched ==
    [phase |-> "down", entry |-> "none", agent |-> FALSE, mongo |-> "none", closed |-> FALSE,
     made |-> 0, inst |-> 0, cmade |-> 0, cinst |-> 0, overlap |-> FALSE,
     chat |-> NoChat, closes |-> 0]

NoKeyCall == [prefix |-> "", args |-> <<>>, kwargs |-> <<>>]

Init ==
    /\ constructed = FALSE
    /\ enabled = FALSE
    /\ client = "None"
    /\ conn = "none"
    /\ redis = [k \in AllKeys |-> NoEntry]
    /\ now = 0
    /\ source \in 1..Len(SourceTimeline)
    /\ task = [c \in Callers |-> IdleTask]
    /\ last = NoOp
    /\ hist = [wrote |-> [k \in AllKeys |-> NoWrite],
               streak |-> [k \in AllKeys |-> NoStreak],
               origin |-> [k \in AllKeys |-> NoOrigin],
               srcChanged |-> FALSE]
    /\ keyIn = <<NoKeyCall, NoKeyCall>>
    /\ keyOut = <<"", "">>
    /\ life = NotLaunched

Idle(c) == constructed /\ task[c].pc = "idle"

(***************************************************************************)
(* The store's methods as steps of a caller                                *)
(***************************************************************************)
Construct(pingOk) ==
    /\ ~constructed
    /\ constructed' = TRUE
    /\ enabled' = RedisCacheInit(pingOk).enabled
    /\ client' = RedisCacheInit(pingOk).client
    /\ conn' = RedisCacheInit(pingOk).conn
    /\ last' = Done(0, "__init__", "", <<>>, "", Return(PyNone), 1, ~pingOk, 0)
    /\ UNCHANGED <<redis, now, source, task, hist, keyIn, keyOut, life>>

CacheGet(c, k, fail) ==
    /\ Idle(c)
    /\ last' = Done(c, "get", "", <<>>, k, get(enabled, client, redis[k], fail),
                    IF NotUsable(enabled, client) THEN 0 ELSE 1,
                    ~NotUsable(enabled, client) /\ Failed(fail), 0)
    /\ conn' = AfterCommand(enabled, client, conn)
    /\ UNCHANGED <<constructed, enabled, client, redis, now, source, task, hist, keyIn, keyOut, life>>

CacheSet(c, k, v, ttl, fail) ==
    /\ Idle(c)
    /\ redis' = SetEffect(enabled, client, redis, now, k, v, ttl, fail)
    /\ last' = Done(c, "set", "", <<>>, k, set(enabled, client, ttl, fail),
                    IF NotUsable(enabled, client) THEN 0 ELSE 1,
                    ~NotUsable(enabled, client) /\ SetexRaises(ttl, fail), 0)
    /\ hist' = [NoteSet(hist, ~NotUsable(enabled, client), k, v, ttl, now, fail)
                 EXCEPT !.streak[k] = IF ~NotUsable(enabled, client) /\ Applied(fail) /\ ttl > 0
                                      THEN NoStreak ELSE @,
                        !.origin[k] = IF ~NotUsable(enabled, client) /\ Applied(fail) /\ ttl > 0
                                      THEN NoOrigin ELSE @]
    /\ conn' = AfterCommand(enabled, client, conn)
    /\ UNCHANGED <<constructed, enabled, client, now, source, task, keyIn, keyOut, life>>

CacheDelete(c, k, fail) ==
    /\ Idle(c)
    /\ redis' = DeleteEffect(enabled, client, redis, k, fail)
    /\ last' = Done(c, "delete", "", <<>>, k, delete(enabled, client, fail),
                    IF NotUsable(enabled, client) THEN 0 ELSE 1,
                    ~NotUsable(enabled, client) /\ Failed(fail), 0)
    /\ hist' = IF ~NotUsable(enabled, client) /\ Applied(fail) THEN Forget(hist, {k}) ELSE hist
    /\ conn' = AfterCommand(enabled, client, conn)
    /\ UNCHANGED <<constructed, enabled, client, now, source, task, keyIn, keyOut, life>>

\* clear_pattern up to the reply of KEYS
ClearKeys(c, pattern, fail) ==
    /\ Idle(c)
    /\ LET keys == RedisKeys(redis, pattern)
       IN  IF ClearGoesOn(enabled, client, keys, fail)
           THEN /\ task' = [task EXCEPT ![c] = [IdleTask EXCEPT !.pc = "clear_delete",
                                                  !.keys = keys, !.pattern = pattern]]
                /\ last' = NoOp
           ELSE /\ task' = task
                /\ last' = Done(c, "clear_pattern", "", <<>>, pattern,
                                clear_pattern_keys(enabled, client, keys, fail),
                                IF NotUsable(enabled, client) THEN 0 ELSE 1,
                                ~NotUsable(enabled, client) /\ Failed(fail), 0)
    /\ conn' = AfterCommand(enabled, client, conn)
    /\ UNCHANGED <<constructed, enabled, client, redis, now, source, hist, keyIn, keyOut, life>>

\* clear_pattern from the DEL of the keys found to its return
ClearDelete(c, fail) ==
    /\ task[c].pc = "clear_delete"
    /\ redis' = RedisDel(redis, task[c].keys, fail)
    /\ last' = Done(c, "clear_pattern", "", <<>>, task[c].pattern,
                    clear_pattern_delete(RedisDelCount(redis, task[c].keys), fail),
                    2, Failed(fail), 0)
    /\ hist' = IF Applied(fail) THEN Forget(hist, task[c].keys) ELSE hist
    /\ task' = [task EXCEPT ![c] = IdleTask]
    /\ conn' = "open"
    /\ UNCHANGED <<constructed, enabled, client, now, source, keyIn, keyOut, life>>

CacheGetStats(c, info, fail) ==
    /\ Idle(c)
    /\ last' = Done(c, "get_stats", "", <<>>, "",
                    get_stats(enabled, client, info,
                              Cardinality(RedisKeys(redis, KeyNamespace \o ":*")), fail),
                    IF NotUsable(enabled, client) THEN 0 ELSE IF Failed(fail) THEN 1 ELSE 2,
                    ~NotUsable(enabled, client) /\ Failed(fail), 0)
    /\ conn' = AfterCommand(enabled, client, conn)
    /\ UNCHANGED <<constructed, enabled, client, redis, now, source, task, hist, keyIn, keyOut, life>>

CacheClose(c, fail) ==
    /\ Idle(c)
    /\ conn' = CloseConn(client, conn, fail)
    /\ last' = Done(c, "close", "", <<>>, "", close(client, fail),
                    IF client # "None" THEN 1 ELSE 0, client # "None" /\ Failed(fail), 0)
    /\ life' = [life EXCEPT !.closed = TRUE]
    /\ UNCHANGED <<constructed, enabled, client, redis, now, source, task, hist, keyIn, keyOut>>

(***************************************************************************)
(* cache_result's wrapper, cache.py:158-178, in three steps: up to the     *)
(* reply of cache.get, the call of func, and cache.set with the return.    *)
(***************************************************************************)
\* "if not cache or not cache.enabled": the tools object always holds a
\* RedisCache (agent.py:77), so the test is on enabled alone
\* variant for BypassOnDisabled: the wrapper never bypasses
BypassNever(en) == FALSE

Bypass(en) == ~en

\* variant for NoneNeverCached: whatever get returns taken for a hit
IsHitAlways(cached) == TRUE

\* variant for ErrorResultsCached: a cached error message not used
IsHitUnlessError(cached) ==
    cached # PyNone /\ ~(cached.t = "str" /\ Len(cached.s) >= 6 /\ SubSeq(cached.s, 1, 6) = "Error ")

\* variant for StoredValueReturned: "if cached_result:"
IsHitTruthy(cached) ==
    cached \notin {PyNone, PyStr(""), PyInt(0), PyBool(FALSE), PyList(<<>>), PyDict(<<>>, <<>>)}

\* variant for MemoizedOnce: the cached result never used
IsHitNever(cached) == FALSE

\* "if cached_result is not None"
IsHit(cached) == cached # PyNone

\* the runs of calls are followed on the keys of ToolCalls
SetStreak(h, k, st) == IF k \in ToolKeys THEN [h EXCEPT !.streak[k] = st] ELSE h

\* the run of calls on key k goes on with a call that returned ret
StreakCall(st, ret) ==
    IF st.on
    THEN [st EXCEPT !.calls = Min(@ + 1, MaxStreak), !.same = @ /\ ret = st.val]
    ELSE st

\* the wrapper from the reply of cache.get on: out is what get returned
\* for cache_key
WrapperAfterGet(c, fn, args, key, out, fail) ==
    /\ conn' = AfterCommand(enabled, client, conn)
    /\ IF out.raised
       THEN /\ last' = Done(c, "call", fn, args, key, out, 1, TRUE, 0)
            /\ hist' = SetStreak(hist, key, NoStreak)
            /\ task' = task
       ELSE IF IsHit(out.ret)
       THEN /\ last' = Done(c, "call", fn, args, key, out, 1, Failed(fail), 0)
            /\ hist' = SetStreak(hist, key, StreakCall(hist.streak[key], out.ret))
            /\ task' = task
       ELSE /\ last' = NoOp
            /\ hist' = IF Failed(fail)
                       THEN SetStreak(hist, key, NoStreak)
                       ELSE hist
            /\ task' = [task EXCEPT ![c] =
                          [IdleTask EXCEPT !.pc = "exec", !.fn = fn, !.args = args,
                                           !.key = key, !.berr = Failed(fail),
                                           !.found = Found(redis[key], fail)]]

\* a call of a memoized operation up to the reply of cache.get; out is
\* what func(self, *args, **kwargs) does if the call bypasses the store
WrapperCallOf(c, fn, args, fail, out) ==
    /\ Idle(c)
    /\ fn \in Decorated
    /\ <<fn, args>> \in AllToolCalls
    /\ IF Bypass(enabled)
       THEN /\ last' = [Done(c, "call", fn, args, "", out, 0, FALSE, 1)
                         EXCEPT !.src = source, !.readAt = now]
            /\ UNCHANGED <<task, hist, conn>>
       ELSE WrapperAfterGet(c, fn, args, KeyOfCall(fn, args),
                            get(enabled, client, redis[KeyOfCall(fn, args)], fail), fail)
    /\ UNCHANGED <<constructed, enabled, client, redis, now, source, keyIn, keyOut, life>>

\* a call of a memoized tool of agent.py
WrapperCall(c, fn, args, fail) ==
    WrapperCallOf(c, fn, args, fail, Return(Func(fn, args, source)))

\* a call of a tool that carries no decorator: the tool itself runs
DirectCall(c, fn, args) ==
    /\ Idle(c)
    /\ fn \notin Decorated
    /\ <<fn, args>> \in AllToolCalls
    /\ last' = [Done(c, "call", fn, args, "", Return(Func(fn, args, source)), 0, FALSE, 1)
                 EXCEPT !.src = source, !.readAt = now]
    /\ UNCHANGED <<constructed, enabled, client, conn, redis, now, source, task, hist,
                   keyIn, keyOut, life>>

\* variant for ExceptionPropagates: the wrapper catching the exception and
\* going on with None for the result
WrapperExecCaught(c, out) ==
    /\ task[c].pc = "exec"
    /\ task' = [task EXCEPT ![c].pc = "set",
                            ![c].result = IF out.raised THEN PyNone ELSE out.ret,
                            ![c].src = source,
                            ![c].readAt = now]
    /\ hist' = hist
    /\ last' = NoOp
    /\ UNCHANGED <<constructed, enabled, client, conn, redis, now, source, keyIn, keyOut, life>>

\* result = func(self, *args, **kwargs), out being what the operation
\* does: an exception leaves the wrapper, which has no try, at once
WrapperExecOf(c, out) ==
    /\ task[c].pc = "exec"
    /\ IF out.raised
       THEN /\ task' = [task EXCEPT ![c] = IdleTask]
            /\ hist' = SetStreak(hist, task[c].key, NoStreak)
            /\ last' = [Done(c, "call", task[c].fn, task[c].args, task[c].key, out, 1,
                              task[c].berr, 1)
                         EXCEPT !.found = task[c].found, !.src = source, !.readAt = now]
       ELSE /\ task' = [task EXCEPT ![c].pc = "set",
                                    ![c].result = out.ret,
                                    ![c].src = source,
                                    ![c].readAt = now]
            /\ hist' = LET st == hist.streak[task[c].key]
                       IN  SetStreak(hist, task[c].key,
                                     IF st.on THEN [st EXCEPT !.execs = Min(@ + 1, MaxStreak)]
                                     ELSE st)
            /\ last' = NoOp
    /\ UNCHANGED <<constructed, enabled, client, conn, redis, now, source, keyIn, keyOut, life>>

\* the tools of agent.py return what their query gives
WrapperExec(c) == WrapperExecOf(c, Return(Func(task[c].fn, task[c].args, source)))

\* cache.set(cache_key, result, ttl); return result, for a wrapper made
\* by cache_result(ttl=ttl)
WrapperSetTtl(c, ttl, fail) ==
    /\ task[c].pc = "set"
    /\ LET t == task[c]
           s == set(enabled, client, ttl, fail)
           h == IF ~NotUsable(enabled, client) /\ Applied(fail) /\ ttl > 0
                THEN [hist EXCEPT !.wrote[t.key] = NoWrite,
                                  !.origin[t.key] = [on |-> TRUE, src |-> t.src,
                                                     readAt |-> t.readAt, setAt |-> now]]
                ELSE hist
           st == h.streak[t.key]
       IN  /\ redis' = SetEffect(enabled, client, redis, now, t.key, t.result, ttl, fail)
           /\ last' = [Done(c, "call", t.fn, t.args, t.key,
                            IF s.raised THEN Raise ELSE Return(t.result), 2,
                            t.berr \/ SetexRaises(ttl, fail), 1)
                         EXCEPT !.found = t.found, !.src = t.src, !.readAt = t.readAt]
           /\ hist' = SetStreak(h, t.key,
                          IF st.on /\ s.ret = PyBool(TRUE) THEN StreakCall(st, t.result)
                          ELSE IF s.ret = PyBool(TRUE) /\ ~t.berr
                                  /\ IsJsonValue(t.result) /\ t.result # PyNone
                          THEN [on |-> TRUE, val |-> t.result, calls |-> 1, execs |-> 1,
                                same |-> TRUE]
                          ELSE NoStreak)
    /\ task' = [task EXCEPT ![c] = IdleTask]
    /\ conn' = AfterCommand(enabled, client, conn)
    /\ UNCHANGED <<constructed, enabled, client, now, source, keyIn, keyOut, life>>

\* the wrapper of a tool of agent.py: the ttl its decorator names
WrapperSet(c, fail) == WrapperSetTtl(c, DecoratorTtl(task[c].fn), fail)

(***************************************************************************)
(* The environment: the clock, the data source, other clients of the       *)
(* shared server                                                           *)
(***************************************************************************)
Tick ==
    /\ now < MaxTicks * TickSeconds
    /\ now' = now + TickSeconds
    /\ redis' = Expire(redis, now')
    /\ hist' = [hist EXCEPT !.streak =
                   [k \in AllKeys |-> IF redis[k].present /\ ~redis'[k].present
                                      THEN NoStreak ELSE @[k]],
                            !.origin =
                   [k \in AllKeys |-> IF redis[k].present /\ ~redis'[k].present
                                      THEN NoOrigin ELSE @[k]]]
    /\ last' = NoOp
    /\ UNCHANGED <<constructed, enabled, client, conn, source, task, keyIn, keyOut, life>>

SourceChange ==
    /\ source < Len(SourceTimeline)
    /\ source' = source + 1
    /\ hist' = [hist EXCEPT !.srcChanged = TRUE]
    /\ last' = NoOp
    /\ UNCHANGED <<constructed, enabled, client, conn, redis, now, task, keyIn, keyOut, life>>

ExternalWrite(k, raw) ==
    /\ redis[k] # Entry(raw, Horizon)
    /\ redis' = [redis EXCEPT ![k] = Entry(raw, Horizon)]
    /\ hist' = Forget(hist, {k})
    /\ last' = NoOp
    /\ UNCHANGED <<constructed, enabled, client, conn, now, source, task, keyIn, keyOut, life>>

(***************************************************************************)
(* The specifications                                                      *)
(***************************************************************************)
\* one caller using the memoized tools, with the store's own methods on
\* the tools' keys, while time passes and the data source changes
Next ==
    \/ \E ok \in BOOLEAN : Construct(ok)
    \/ \E tc \in ToolCalls, fail \in {"ok", "refused"} : WrapperCall(1, tc[1], tc[2], fail)
    \/ WrapperExec(1)
    \/ \E fail \in FailModes : WrapperSet(1, fail)
    \/ \E k \in ToolKeys : CacheGet(1, k, "ok")
    \/ \E k \in ToolKeys : CacheDelete(1, k, "ok")
    \/ \E p \in ToolPatterns : ClearKeys(1, p, "ok")
    \/ ClearDelete(1, "ok")
    \/ Tick
    \/ SourceChange
    \/ \E k \in ToolKeys, raw \in ForeignRaws : ExternalWrite(k, raw)

Spec == Init /\ [][Next]_vars

\* one caller driving the store's methods as the tests do
NextStore ==
    \/ \E ok \in BOOLEAN : Construct(ok)
    \/ \E k \in DirectKeys, fail \in {"ok", "refused"} : CacheGet(1, k, fail)
    \/ \E st \in DirectSets, fail \in FailModes : CacheSet(1, st[1], st[2], st[3], fail)
    \/ \E k \in DirectKeys, fail \in FailModes : CacheDelete(1, k, fail)
    \/ \E p \in ClearPatterns, fail \in {"ok", "refused"} : ClearKeys(1, p, fail)
    \/ \E fail \in FailModes : ClearDelete(1, fail)
    \/ \E info \in InfoReplies, fail \in {"ok", "refused"} : CacheGetStats(1, info, fail)
    \/ \E fail \in {"ok", "refused"} : CacheClose(1, fail)
    \/ Tick
    \/ \E raw \in ForeignRaws : ExternalWrite("test:1", raw)

SpecStore == Init /\ [][NextStore]_vars

\* the callers sharing one store (the tools of the request handlers):
\* memoized calls of the title search, interleaved at their backend calls,
\* while time passes and the data source changes
SharedCall == <<"search_movies_by_title", <<PyStr("Heat")>> >>

NextShared ==
    \/ \E ok \in BOOLEAN : Construct(ok)
    \/ \E c \in Callers : WrapperCall(c, SharedCall[1], SharedCall[2], "ok")
    \/ \E c \in Callers : WrapperExec(c)
    \/ \E c \in Callers : WrapperSet(c, "ok")
    \/ Tick
    \/ SourceChange

SpecShared == Init /\ [][NextShared]_vars

\* one caller clearing the tools' entries (api.py:317) while the others
\* make memoized calls and delete entries, and time passes
NextClear ==
    \/ \E ok \in BOOLEAN : Construct(ok)
    \/ ClearKeys(1, "movie_cache:*", "ok")
    \/ ClearDelete(1, "ok")
    \/ \E c \in Callers \ {1}, tc \in ToolCalls : WrapperCall(c, tc[1], tc[2], "ok")
    \/ \E c \in Callers \ {1} : WrapperExec(c)
    \/ \E c \in Callers \ {1} : WrapperSet(c, "ok")
    \/ \E c \in Callers \ {1}, k \in ToolKeys : CacheDelete(c, k, "ok")
    \/ Tick

SpecClear == Init /\ [][NextClear]_vars

\* JSON texts another writer of the shared server may leave under the keys
\* of the tools: falsy values, null, and a text that does not decode
SeedRaws == {"\"\"", "0", "false", "[]", "null", "{oops"}

\* one caller making memoized calls on entries written by someone else
NextSeeded ==
    \/ \E ok \in BOOLEAN : Construct(ok)
    \/ \E k \in ToolKeys, raw \in SeedRaws : ExternalWrite(k, raw)
    \/ \E tc \in ToolCalls : WrapperCall(1, tc[1], tc[2], "ok")
    \/ WrapperExec(1)
    \/ WrapperSet(1, "ok")

SpecSeeded == Init /\ [][NextSeeded]_vars

\* one caller using all seven tools
NextTools ==
    \/ \E ok \in BOOLEAN : Construct(ok)
    \/ \E tc \in AllToolCalls : WrapperCall(1, tc[1], tc[2], "ok")
    \/ \E tc \in AllToolCalls : DirectCall(1, tc[1], tc[2])
    \/ WrapperExec(1)
    \/ WrapperSet(1, "ok")
    \/ Tick

SpecTools == Init /\ [][NextTools]_vars

(***************************************************************************)
(* The process around the agent: api.py's lifespan and get_agent, main.py's *)
(* main, MovieAgent.close                                                  *)
(***************************************************************************)
Entries == {"api", "cli"}

storeVars == <<constructed, enabled, client, conn, redis, now, source, task, hist, keyIn, keyOut>>

\* uvicorn starts api.py's app with agent = None (api.py:40); main.py's main
\* starts (main.py:88)
Launch(entry) ==
    /\ life.phase = "down"
    /\ ~constructed
    /\ life' = [life EXCEPT !.phase = "launched", !.entry = entry]
    /\ last' = NoOp
    /\ UNCHANGED storeVars

\* MovieAgent(): at the first request that calls get_agent (api.py:45-46),
\* or at the start of main (main.py:90); MovieDatabaseTools.__init__
\* opens the MongoDB client (agent.py:69) and goes on to RedisCache()
CreateAgent ==
    /\ life.phase = "launched"
    /\ life' = [life EXCEPT !.phase = "creating", !.mongo = "open"]
    /\ last' = NoOp
    /\ UNCHANGED storeVars

\* MovieAgent() returns and the name agent is bound to the object
AgentReady ==
    /\ life.phase = "creating"
    /\ constructed
    /\ life' = [life EXCEPT !.phase = "serving", !.agent = TRUE]
    /\ last' = NoOp
    /\ UNCHANGED storeVars

\* the server is told to stop and lifespan goes on after its yield
\* (api.py:67), with an agent or before any request made one; or the loop
\* of main breaks (main.py:119, 131) and its finally clause is entered
Shutdown ==
    /\ \/ life.phase = "serving"
       \/ life.phase = "launched" /\ life.entry = "api"
    /\ task[1].pc = "idle"
    /\ life' = [life EXCEPT !.phase = "cleanup"]
    /\ last' = NoOp
    /\ UNCHANGED storeVars

\* variant for CliCleanup: the process ending with no cleanup made
CleanupNoClose ==
    /\ life.phase = "cleanup"
    /\ life' = [life EXCEPT !.phase = "exited"]
    /\ last' = NoOp
    /\ UNCHANGED storeVars

\* "if agent is not None: agent.close(); agent = None" (api.py:70-73),
\* "if agent: agent.close()" (main.py:139-140); MovieAgent.close is
\* self.db_tools.client.close(), the MongoDB client, and nothing else
\* (agent.py:605-611)
Cleanup ==
    /\ life.phase = "cleanup"
    /\ life' = [life EXCEPT !.phase = "exited",
                            !.mongo = IF life.agent THEN "closed" ELSE @,
                            !.closes = IF life.agent THEN @ + 1 ELSE @,
                            !.agent = IF life.entry = "api" THEN FALSE ELSE @,
                            !.inst = IF life.entry = "api" THEN 0 ELSE @]
    /\ last' = NoOp
    /\ UNCHANGED storeVars

\* one process from launch to exit, its agent answering tool calls
NextLife ==
    \/ \E entry \in Entries : Launch(entry)
    \/ CreateAgent
    \/ \E ok \in BOOLEAN : life.phase = "creating" /\ Construct(ok)
    \/ AgentReady
    \/ \E tc \in ToolCalls : life.phase = "serving" /\ WrapperCall(1, tc[1], tc[2], "ok")
    \/ life.phase = "serving" /\ WrapperExec(1)
    \/ life.phase = "serving" /\ WrapperSet(1, "ok")
    \/ Tick
    \/ Shutdown
    \/ Cleanup

SpecLife == Init /\ [][NextLife]_vars

(***************************************************************************)
(* _generate_key on its own: two calls of it, with the arguments drawn     *)
(* from the forms the tools' arguments take                                *)
(***************************************************************************)
KeyPrefixes == {"genre", "director"}

KeyArgs ==
    { <<>>, <<PyStr("Action")>>, <<PyStr("Drama")>>,
      <<PyStr("Action"), PyInt(10)>>, <<PyInt(10), PyStr("Action")>>,
      <<PyStr("10"), PyStr("Action")>>,
      <<PyStr("a', 'b")>>, <<PyStr("a"), PyStr("b")>> }

\* keyword arguments in the order the caller wrote them
KeyKwargs ==
    { <<>>,
      << <<"limit", PyInt(10)>> >>,
      << <<"limit", PyInt(20)>> >>,
      << <<"year", PyInt(10)>> >>,
      << <<"limit", PyInt(10)>>, <<"genre", PyStr("Action")>> >>,
      << <<"genre", PyStr("Action")>>, <<"limit", PyInt(10)>> >> }

KeyCalls == [prefix : KeyPrefixes, args : KeyArgs, kwargs : KeyKwargs]

\* the keys of these calls, computed once and looked up
KeyCallTable == [call \in KeyCalls |-> _generate_key(call.prefix, call.args, call.kwargs)] @@ <<>>

\* the i-th call: cache._generate_key(prefix, *args, **kwargs)
MakeKey(i, call) ==
    /\ constructed
    /\ keyIn' = [keyIn EXCEPT ![i] = call]
    /\ keyOut' = [keyOut EXCEPT ![i] = KeyCallTable[call]]
    /\ UNCHANGED <<constructed, enabled, client, conn, redis, now, source, task, last, hist,
                   life>>

NextKey ==
    \/ \E ok \in BOOLEAN : Construct(ok)
    \/ \E i \in 1..2, call \in KeyCalls : MakeKey(i, call)

SpecKey == Init /\ [][NextKey]_vars

\* one caller making memoized calls, setting keys of its own outside the
\* namespace, and clearing with the default pattern (api.py:317)
DefaultPattern == "movie_cache:*"

NextNamespace ==
    \/ \E ok \in BOOLEAN : Construct(ok)
    \/ \E tc \in ToolCalls : WrapperCall(1, tc[1], tc[2], "ok")
    \/ WrapperExec(1)
    \/ WrapperSet(1, "ok")
    \/ \E k \in DirectKeys : CacheSet(1, k, TestData, GenreTtl, "ok")
    \/ ClearKeys(1, DefaultPattern, "ok")
    \/ ClearDelete(1, "ok")
    \/ Tick

SpecNamespace == Init /\ [][NextNamespace]_vars

(***************************************************************************)
(* get_stats over a range of backend counters, cache.py:119-133            *)
(***************************************************************************)
MaxCount == 6

\* INFO replies: every pair of small counters, and two pairs whose rate
\* falls halfway between two hundredths (1/32 and 3/32)
StatsReplies ==
    {[hits |-> h, misses |-> m, mem |-> "1.00M"] : h \in 0..MaxCount, m \in 0..MaxCount}
        \cup {[hits |-> 1, misses |-> 31, mem |-> "1.00M"], [hits |-> 3, misses |-> 29, mem |-> "1.00M"]}

NextStats ==
    \/ \E ok \in BOOLEAN : Construct(ok)
    \/ \E k \in DirectKeys : CacheSet(1, k, TestData, ShortTtl, "ok")
    \/ \E info \in StatsReplies, fail \in {"ok", "lost"} : CacheGetStats(1, info, fail)
    \/ Tick

SpecStats == Init /\ [][NextStats]_vars

\* the tools wrapped by cache_result(ttl=0, ...): every set asks for an
\* expiry of 0 seconds
NextFresh ==
    \/ \E ok \in BOOLEAN : Construct(ok)
    \/ \E tc \in ToolCalls, fail \in FailModes : WrapperCall(1, tc[1], tc[2], fail)
    \/ WrapperExec(1)
    \/ \E fail \in FailModes : WrapperSetTtl(1, 0, fail)
    \/ SourceChange
    \/ Tick

SpecFresh == Init /\ [][NextFresh]_vars

(***************************************************************************)
(* The lazily made globals: get_agent, api.py:42-47, and get_cache,        *)
(* cache.py:186-191                                                        *)
(***************************************************************************)
\* variant for SingletonUnlessOverlap: the null check always passing
IsNoneAlways(x) == TRUE

\* "agent is None", "_cache_instance is None"
IsNone(x) == x = 0

\* a request handler calls get_agent(). The handlers are coroutines of one
\* event loop (async def, api.py:134-316) and get_agent awaits nothing, so
\* a call runs from its check to its return with no other handler in
\* between. ok: MovieAgent() raised nothing; the handler turns an
\* exception into a 500 reply (api.py:147-148) and agent stays None.
GetAgent(c, ok) ==
    /\ life.entry = "api"
    /\ life.phase \in {"launched", "serving"}
    /\ task[c].pc = "idle"
    /\ IF ~IsNone(life.inst)
       THEN /\ last' = Done(c, "get_agent", "", <<>>, "", Return(PyInt(life.inst)), 0, FALSE, 0)
            /\ UNCHANGED <<life, constructed, enabled, client, conn>>
       ELSE IF ~ok
       THEN /\ last' = Done(c, "get_agent", "", <<>>, "", Raise, 0, FALSE, 1)
            /\ UNCHANGED <<life, constructed, enabled, client, conn>>
       ELSE /\ last' = Done(c, "get_agent", "", <<>>, "", Return(PyInt(life.made + 1)), 0, FALSE, 1)
            /\ life' = [life EXCEPT !.made = @ + 1, !.inst = life.made + 1, !.agent = TRUE,
                                    !.mongo = "open", !.phase = "serving"]
            /\ \E pingOk \in BOOLEAN :
                  /\ constructed' = TRUE
                  /\ enabled' = RedisCacheInit(pingOk).enabled
                  /\ client' = RedisCacheInit(pingOk).client
                  /\ conn' = RedisCacheInit(pingOk).conn
    /\ UNCHANGED <<redis, now, source, task, hist, keyIn, keyOut>>

\* get_cache() has no caller in the program; a caller on a thread of its
\* own can be switched out between the lines of the function.
\* "if _cache_instance is None" (cache.py:189)
GetCacheCheck(c) ==
    /\ life.phase \in {"launched", "serving"}
    /\ task[c].pc = "idle"
    /\ IF IsNone(life.cinst)
       THEN /\ task' = [task EXCEPT ![c] = [IdleTask EXCEPT !.pc = "cache_new"]]
            /\ life' = [life EXCEPT !.overlap =
                            @ \/ \E d \in Callers \ {c} : task[d].pc = "cache_new"]
       ELSE /\ task' = [task EXCEPT ![c] = [IdleTask EXCEPT !.pc = "cache_return"]]
            /\ life' = life
    /\ last' = NoOp
    /\ UNCHANGED <<constructed, enabled, client, conn, redis, now, source, hist, keyIn, keyOut>>

\* "_cache_instance = RedisCache()" (cache.py:190): the constructor raises
\* nothing
GetCacheNew(c) ==
    /\ task[c].pc = "cache_new"
    /\ task' = [task EXCEPT ![c].pc = "cache_return"]
    /\ life' = [life EXCEPT !.cmade = @ + 1, !.cinst = life.cmade + 1]
    /\ last' = NoOp
    /\ UNCHANGED <<constructed, enabled, client, conn, redis, now, source, hist, keyIn, keyOut>>

\* "return _cache_instance" (cache.py:191); execs tells whether the call
\* made an object
GetCacheReturn(c) ==
    /\ task[c].pc = "cache_return"
    /\ task' = [task EXCEPT ![c] = IdleTask]
    /\ last' = Done(c, "get_cache", "", <<>>, "", Return(PyInt(life.cinst)), 0, FALSE, 0)
    /\ UNCHANGED <<constructed, enabled, client, conn, redis, now, source, hist, keyIn, keyOut, life>>

\* the API process from startup to shutdown, its handlers calling
\* get_agent, and callers of get_cache on threads
NextSingleton ==
    \/ Launch("api")
    \/ \E c \in Callers, ok \in BOOLEAN : GetAgent(c, ok)
    \/ \E c \in Callers : GetCacheCheck(c)
    \/ \E c \in Callers : GetCacheNew(c)
    \/ \E c \in Callers : GetCacheReturn(c)
    \/ Tick
    \/ Shutdown
    \/ Cleanup

SpecSingleton == Init /\ [][NextSingleton]_vars

\* one caller making memoized calls while the data source fails and
\* recovers and time passes
NextErrors ==
    \/ \E ok \in BOOLEAN : Construct(ok)
    \/ \E tc \in ToolCalls : WrapperCall(1, tc[1], tc[2], "ok")
    \/ WrapperExec(1)
    \/ WrapperSet(1, "ok")
    \/ SourceChange
    \/ Tick

SpecErrors == Init /\ [][NextErrors]_vars

\* an operation that returns None, wrapped by cache_result under the key
\* and ttl of a tool
NextNone ==
    \/ \E ok \in BOOLEAN : Construct(ok)
    \/ \E tc \in ToolCalls, fail \in {"ok", "refused"} :
          WrapperCallOf(1, tc[1], tc[2], fail, Return(PyNone))
    \/ WrapperExecOf(1, Return(PyNone))
    \/ \E fail \in {"ok", "refused"} : WrapperSet(1, fail)
    \/ Tick

SpecNone == Init /\ [][NextNone]_vars

\* the tools wrapped as they are, their execution raising at times
NextRaises ==
    \/ \E ok \in BOOLEAN : Construct(ok)
    \/ \E tc \in ToolCalls, fail \in {"ok", "refused"} : WrapperCall(1, tc[1], tc[2], fail)
    \/ \E tc \in ToolCalls : WrapperCallOf(1, tc[1], tc[2], "ok", Raise)
    \/ WrapperExec(1)
    \/ WrapperExecOf(1, Raise)
    \/ \E fail \in {"ok", "refused"} : WrapperSet(1, fail)
    \/ Tick

SpecRaises == Init /\ [][NextRaises]_vars

(***************************************************************************)
(* The conversation memory of MovieAgent, agent.py:486-603                 *)
(***************************************************************************)
MaxHistory == 10

MaxSaves == 4

MaxFaults == 2

\* variant for HistoryBounded: nothing cut off
KeepAll(seq, n) == seq

\* seq[-n:]
LastMessages(seq, n) == IF Len(seq) > n THEN SubSeq(seq, Len(seq) - n + 1, Len(seq)) ELSE seq

\* what the session's document may hold when the agent starts: nothing, or
\* more messages than the agent keeps
StoredBefore == {<<>>, [i \in 1..(MaxHistory + 1) |-> i]}

\* the message the next _save_message makes
NewMessage(ch) == MaxHistory + 2 + ch.saves

Faults(ch, fail) == IF Failed(fail) THEN ch.faults + 1 ELSE ch.faults

TookEffect(ch, fail) == ch.tookEffect \/ (Failed(fail) /\ Applied(fail))

\* _load_conversation_history in __init__ (agent.py:330, 486-504)
load_conversation_history(stored, ok) ==
    IF ok THEN LastMessages(stored, MaxHistory) ELSE <<>>

\* _save_message: update_one pushes the message; when it raised nothing
\* the message is appended to the history, cut to its last 10. A call
\* that raises may have pushed the message (the reply lost) or not.
save_message(ch, fail) ==
    [ch EXCEPT !.stored = IF Applied(fail) THEN Append(@, NewMessage(ch)) ELSE @,
               !.history = IF Failed(fail) THEN @
                           ELSE LastMessages(Append(@, NewMessage(ch)), MaxHistory),
               !.saves = @ + 1,
               !.faults = Faults(ch, fail),
               !.tookEffect = TookEffect(ch, fail)]

\* clear_history: delete_one, then the history emptied
clear_history(ch, fail) ==
    [ch EXCEPT !.stored = IF Applied(fail) THEN <<>> ELSE @,
               !.history = IF Failed(fail) THEN @ ELSE <<>>,
               !.faults = Faults(ch, fail),
               !.tookEffect = TookEffect(ch, fail)]

QueryOutcomes == {"answer", "none", "raises"}

\* query: the question saved, the agent invoked, and the answer, or the
\* error message when anything raised, saved; "No response generated" is
\* returned without a save
query(ch, fail1, outcome, fail2) ==
    IF outcome = "none" THEN save_message(ch, fail1)
    ELSE save_message(save_message(ch, fail1), fail2)

ChatStep(c, op, ch, berr) ==
    /\ life' = [life EXCEPT !.chat = ch]
    /\ last' = Done(c, op, "", <<>>, "", Return(PyNone), ch.saves - life.chat.saves, berr, 0)
    /\ UNCHANGED storeVars

AgentInit(stored, ok) ==
    /\ ~life.chat.open
    /\ ChatStep(1, "__init__",
                [NoChat EXCEPT !.open = TRUE, !.stored = stored,
                               !.history = load_conversation_history(stored, ok)], ~ok)

SaveMessage(fail) ==
    /\ life.chat.open
    /\ life.chat.saves < MaxSaves
    /\ Faults(life.chat, fail) <= MaxFaults
    /\ ChatStep(1, "_save_message", save_message(life.chat, fail), Failed(fail))

ClearHistory(fail) ==
    /\ life.chat.open
    /\ Faults(life.chat, fail) <= MaxFaults
    /\ ChatStep(1, "clear_history", clear_history(life.chat, fail), Failed(fail))

Query(fail1, outcome, fail2) ==
    /\ life.chat.open
    /\ query(life.chat, fail1, outcome, fail2).saves <= MaxSaves
    /\ query(life.chat, fail1, outcome, fail2).faults <= MaxFaults
    /\ ChatStep(1, "query", query(life.chat, fail1, outcome, fail2),
                Failed(fail1) \/ (outcome # "none" /\ Failed(fail2)))

NextHistory ==
    \/ \E stored \in StoredBefore, ok \in BOOLEAN : AgentInit(stored, ok)
    \/ \E fail \in FailModes : SaveMessage(fail)
    \/ \E fail \in FailModes : ClearHistory(fail)
    \/ \E fail1 \in FailModes, outcome \in QueryOutcomes, fail2 \in FailModes :
          Query(fail1, outcome, fail2)

SpecHistory == Init /\ [][NextHistory]_vars

(***************************************************************************)
(* The interaction loop of main, main.py:80-143                            *)
(***************************************************************************)
ExitCommands == {"exit", "quit", "q"}

\* str.strip() of a line whose only white space is blanks
RECURSIVE strip(_)
strip(s) ==
    IF s = "" THEN ""
    ELSE IF Char(s, 1) = " " THEN strip(SubSeq(s, 2, Len(s)))
    ELSE IF Char(s, Len(s)) = " " THEN strip(SubSeq(s, 1, Len(s) - 1))
    ELSE s

\* what the user may type at the prompt
UserLines == {"", "  ", "help", "exit", "Quit", " q ", "heat"}

\* what one line makes the loop do (main.py:113-128)
LineKind(line) ==
    IF strip(line) = "" THEN "empty"
    ELSE IF LowerStr(strip(line)) \in ExitCommands THEN "break"
    ELSE IF LowerStr(strip(line)) = "help" THEN "help"
    ELSE "query"

CliStep(op, out, lf) ==
    /\ life' = lf
    /\ last' = Done(1, op, "", <<>>, "", out, 0, FALSE, 0)
    /\ UNCHANGED <<redis, now, source, task, hist, keyIn, keyOut>>

\* "agent = MovieAgent()" (main.py:88-99): the database tools with their
\* store and the conversation history made; when it raises, main returns 1
CliInit(stored, loadOk, ok) ==
    /\ life.entry = "cli"
    /\ life.phase = "launched"
    /\ IF ok
       THEN /\ CliStep("MovieAgent", Return(PyNone),
                       [life EXCEPT !.phase = "serving", !.agent = TRUE, !.mongo = "open",
                                    !.chat = [NoChat EXCEPT !.open = TRUE, !.stored = stored,
                                                 !.history = load_conversation_history(stored, loadOk)]])
            /\ \E pingOk \in BOOLEAN :
                  /\ constructed' = TRUE
                  /\ enabled' = RedisCacheInit(pingOk).enabled
                  /\ client' = RedisCacheInit(pingOk).client
                  /\ conn' = RedisCacheInit(pingOk).conn
       ELSE /\ CliStep("MovieAgent", Raise, [life EXCEPT !.phase = "exited"])
            /\ UNCHANGED <<constructed, enabled, client, conn>>

\* one turn of the loop on a line read by input() that is empty or a
\* command (main.py:113-124)
CliCommand(line) ==
    /\ life.entry = "cli"
    /\ life.phase = "serving"
    /\ LineKind(line) # "query"
    /\ CliStep(LineKind(line), Return(PyNone),
               IF LineKind(line) = "break" THEN [life EXCEPT !.phase = "cleanup"] ELSE life)
    /\ UNCHANGED <<constructed, enabled, client, conn>>

\* one turn of the loop on any other line (main.py:126-128): the query
\* ends with its answer, or is cut short by a KeyboardInterrupt, which
\* query's "except Exception" lets through, after the question was saved
CliQuery(line, ch, raised) ==
    /\ life.entry = "cli"
    /\ life.phase = "serving"
    /\ LineKind(line) = "query"
    /\ ch.saves <= MaxSaves
    /\ ch.faults <= MaxFaults
    /\ CliStep("query", IF raised THEN Raise ELSE Return(PyNone),
               [life EXCEPT !.phase = IF raised THEN "cleanup" ELSE @, !.chat = ch])
    /\ UNCHANGED <<constructed, enabled, client, conn>>

\* KeyboardInterrupt while input() waits: the loop is left (main.py:129-131)
CliInterrupt ==
    /\ life.entry = "cli"
    /\ life.phase = "serving"
    /\ CliStep("interrupt", Raise, [life EXCEPT !.phase = "cleanup"])
    /\ UNCHANGED <<constructed, enabled, client, conn>>

\* any other exception in a turn, such as the EOFError of input(): logged,
\* and the loop goes on (main.py:132-134)
CliError ==
    /\ life.entry = "cli"
    /\ life.phase = "serving"
    /\ CliStep("error", Raise, life)
    /\ UNCHANGED <<constructed, enabled, client, conn>>

NextCli ==
    \/ Launch("cli")
    \/ \E loadOk \in BOOLEAN, ok \in BOOLEAN : CliInit(<<>>, loadOk, ok)
    \/ \E line \in UserLines : CliCommand(line)
    \/ \E line \in UserLines, fail \in {"ok", "refused"}, outcome \in QueryOutcomes :
          CliQuery(line, query(life.chat, fail, outcome, "ok"), FALSE)
    \/ \E line \in UserLines, fail \in {"ok", "refused"} :
          CliQuery(line, save_message(life.chat, fail), TRUE)
    \/ CliInterrupt
    \/ CliError
    \/ Cleanup

SpecCli == Init /\ [][NextCli]_vars

\* main runs on: once the loop is left, its finally clause is executed
SpecCliFair == SpecCli /\ WF_vars(Cleanup)

(***************************************************************************)
(* Properties                                                              *)
(***************************************************************************)
Usable == enabled /\ client # "None"

StoreOps == {"get", "set", "delete", "clear_pattern", "get_stats"}

\* C1: on an enabled, reachable store, the calls of a memoized tool with one
\* argument list, from the call that wrote the entry on and for as long as
\* the entry has neither expired nor been deleted, cleared or overwritten,
\* execute the tool once (in the first call) and all return the same result.
MemoizedOnce ==
    \A k \in ToolKeys :
        hist.streak[k].on => hist.streak[k].execs = 1 /\ hist.streak[k].same

\* C1 happens: a run of MaxStreak calls on one key, one execution
MemoizedOnceWitness ==
    \E k \in ToolKeys :
        /\ hist.streak[k].on
        /\ hist.streak[k].calls = MaxStreak
        /\ hist.streak[k].execs = 1
        /\ hist.streak[k].same

\* C2: while the data source has not changed, every call of a memoized tool
\* returns what the tool itself returns for these arguments and raises
\* nothing, whether the store is enabled, disabled or failing in any of its
\* backend calls.
FailOpen ==
    last.op = "call" /\ ~hist.srcChanged =>
        ~last.raised /\ last.ret = Func(last.fn, last.args, source)

\* C2 happens: a call on an enabled store one of whose backend calls failed
FailOpenWitness ==
    /\ last.op = "call"
    /\ ~hist.srcChanged
    /\ enabled
    /\ last.berr
    /\ last.ret = Func(last.fn, last.args, source)

FailureValue(op) ==
    CASE op = "get" -> PyNone
      [] op = "set" -> PyBool(FALSE)
      [] op = "delete" -> PyBool(FALSE)
      [] op = "clear_pattern" -> PyInt(0)

IsStatsError(v) ==
    /\ v.t = "dict"
    /\ v.keys = <<PyStr("enabled"), PyStr("connected"), PyStr("error")>>
    /\ v.vals[1] = PyBool(TRUE)
    /\ v.vals[2] = PyBool(FALSE)
    /\ v.vals[3].t = "str"

\* C3: on an enabled store, get, set, delete, clear_pattern and get_stats
\* one of whose backend calls failed raise nothing and return None, False,
\* False, 0 and {enabled: true, connected: false, error: message}.
BackendFailureContained ==
    enabled /\ last.berr /\ last.op \in StoreOps =>
        /\ ~last.raised
        /\ IF last.op = "get_stats" THEN IsStatsError(last.ret)
           ELSE last.ret = FailureValue(last.op)

\* C3 happens: clear_pattern whose DEL failed after its KEYS succeeded
BackendFailureContainedWitness ==
    /\ enabled
    /\ last.berr
    /\ last.op = "clear_pattern"
    /\ last.bcalls = 2
    /\ last.ret = PyInt(0)

DisabledValue(op) ==
    CASE op = "get" -> PyNone
      [] op = "set" -> PyBool(FALSE)
      [] op = "delete" -> PyBool(FALSE)
      [] op = "clear_pattern" -> PyInt(0)
      [] op = "get_stats" -> PyDict(<<PyStr("enabled")>>, <<PyBool(FALSE)>>)

\* C4: on a store whose construction did not reach the backend, get, set,
\* delete, clear_pattern and get_stats return None, False, False, 0 and
\* {enabled: false}, raise nothing and make no backend call.
DisabledStoreInert ==
    constructed /\ ~enabled /\ last.op \in StoreOps =>
        /\ ~last.raised
        /\ last.bcalls = 0
        /\ last.ret = DisabledValue(last.op)

\* C4 happens: get_stats on a disabled store
DisabledStoreInertWitness ==
    /\ constructed
    /\ ~enabled
    /\ last.op = "get_stats"
    /\ last.bcalls = 0

\* C5: a constructor whose connection or ping failed raises nothing and
\* leaves enabled = False and client = None; enabled = True implies a
\* client; and no step after the construction changes enabled or client.
ConstructionFixesEnabled ==
    /\ [](/\ (last.op = "__init__" /\ last.berr =>
                 ~last.raised /\ ~enabled /\ client = "None")
          /\ (enabled => client # "None"))
    /\ [][constructed => enabled' = enabled /\ client' = client]_vars

\* C5 happens: close on a store whose construction failed, still disabled
ConstructionFixesEnabledWitness ==
    /\ constructed
    /\ ~enabled
    /\ client = "None"
    /\ last.op = "close"

\* C6: on an enabled, reachable store, set with a ttl above 0 returns True,
\* and a get of the key before the ttl has passed, with no set, delete or
\* clear of the key in between, returns a value equal to the JSON value set.
RoundTrip ==
    /\ (last.op = "set" /\ Usable /\ ~last.berr => last.ret = PyBool(TRUE))
    /\ (last.op = "get" /\ Usable /\ ~last.berr =>
          LET w == hist.wrote[last.key]
          IN  w.on /\ IsJsonValue(w.val) /\ now < w.at + w.ttl => last.ret = w.val)

\* C6 happens: the dict of the test read back some time after it was set
RoundTripWitness ==
    /\ last.op = "get"
    /\ Usable
    /\ ~last.berr
    /\ hist.wrote[last.key].on
    /\ hist.wrote[last.key].val = TestData
    /\ now > hist.wrote[last.key].at
    /\ last.ret = TestData

\* C7: after set(k, v, ttl) with no later write to k, get(k) returns v at
\* the times before ttl seconds have passed since the latest set of k and
\* None at the times after, with no delete.
Expiry ==
    last.op = "get" /\ Usable /\ ~last.berr /\ hist.wrote[last.key].on =>
        LET w == hist.wrote[last.key]
        IN  /\ (now < w.at + w.ttl /\ IsJsonValue(w.val) => last.ret = w.val)
            /\ (now > w.at + w.ttl => last.ret = PyNone)

\* C7 happens: a key set again at a later time, read after that ttl passed
ExpiryWitness ==
    /\ last.op = "get"
    /\ Usable
    /\ ~last.berr
    /\ hist.wrote[last.key].on
    /\ hist.wrote[last.key].at > 0
    /\ now > hist.wrote[last.key].at + hist.wrote[last.key].ttl
    /\ last.ret = PyNone

\* C8: get on an enabled store returns the value whose JSON text the entry
\* holds, and None, raising nothing, when there is no entry or its text
\* does not decode; a memoized call returns from the cache only on an entry
\* that decodes, and one that came upon an undecodable entry executes the
\* tool and writes its result over the entry.
CorruptIsMiss ==
    /\ (last.op = "get" /\ Usable /\ ~last.berr =>
          /\ ~last.raised
          /\ LET e == redis[last.key]
             IN  IF e.present /\ e.raw \notin ForeignRaws
                 THEN json_dumps(last.ret) = e.raw
                 ELSE last.ret = PyNone)
    /\ (last.op = "call" /\ last.execs = 0 =>
          redis[last.key].present /\ redis[last.key].raw \notin ForeignRaws)
    /\ (last.op = "call" /\ last.found = "undecodable" =>
          /\ last.execs = 1
          /\ ~last.berr =>
                redis[last.key] = Entry(json_dumps(last.ret), now + DecoratorTtl(last.fn)))

\* C8 happens: a call that came upon an undecodable entry and replaced it
CorruptIsMissWitness ==
    /\ last.op = "call"
    /\ last.found = "undecodable"
    /\ ~last.berr
    /\ last.execs = 1
    /\ redis[last.key].raw = json_dumps(last.ret)

KwargSet(kwargs) == {kwargs[i] : i \in 1..Len(kwargs)}

SameInputs(a, b) ==
    a.prefix = b.prefix /\ a.args = b.args /\ KwargSet(a.kwargs) = KwargSet(b.kwargs)

BothMade == keyOut[1] # "" /\ keyOut[2] # ""

\* C9: two calls of _generate_key with the same prefix, the same positional
\* arguments and the same keyword arguments, in whatever order these were
\* written and whatever the state of the store, return the same key.
KeyDeterminism ==
    BothMade /\ SameInputs(keyIn[1], keyIn[2]) => keyOut[1] = keyOut[2]

\* C9 happens: the same keyword arguments written in two orders
KeyDeterminismWitness ==
    /\ BothMade
    /\ SameInputs(keyIn[1], keyIn[2])
    /\ keyIn[1].kwargs # keyIn[2].kwargs
    /\ keyOut[1] = keyOut[2]

\* C10: two calls of _generate_key that differ in the prefix, in a
\* positional argument or their order, or in the name or value of a keyword
\* argument return different keys (the digest taken as collision-free).
KeyDiscrimination ==
    BothMade /\ ~SameInputs(keyIn[1], keyIn[2]) => keyOut[1] # keyOut[2]

\* C10 happens: one argument list under two prefixes
KeyDiscriminationWitness ==
    /\ BothMade
    /\ keyIn[1].prefix # keyIn[2].prefix
    /\ keyIn[1].args = keyIn[2].args
    /\ keyIn[1].args # <<>>
    /\ keyIn[1].kwargs = keyIn[2].kwargs
    /\ keyOut[1] # keyOut[2]


\* C11: on an enabled, reachable store clear_pattern(p) enumerates the live
\* keys that match p and, with no write or expiry between the enumeration
\* and the deletion, removes them and no other entry, and returns the
\* number of keys removed, 0 when no key matches.
PatternScoping ==
    /\ [][(Idle(1) /\ task'[1].pc = "clear_delete")
          => task'[1].keys = {k \in AllKeys : redis[k].present /\ GlobMatch(task'[1].pattern, k)}]_vars
    /\ [][(/\ task[1].pc = "clear_delete"
           /\ last'.op = "clear_pattern"
           /\ ~last'.berr
           /\ task[1].keys = {k \in AllKeys : redis[k].present /\ GlobMatch(task[1].pattern, k)})
          => /\ \A k \in AllKeys :
                   IF GlobMatch(task[1].pattern, k) THEN ~redis'[k].present
                   ELSE redis'[k] = redis[k]
             /\ last'.ret = PyInt(Cardinality(task[1].keys))]_vars
    /\ [][(Idle(1) /\ Usable /\ last'.op = "clear_pattern" /\ ~last'.berr)
          => /\ \A k \in AllKeys : redis[k].present => ~GlobMatch(last'.key, k)
             /\ last'.ret = PyInt(0)
             /\ redis' = redis]_vars

\* C11 happens: the genre entries cleared, one key removed, and the entry
\* of the title search still there
PatternScopingWitness ==
    /\ last.op = "clear_pattern"
    /\ last.key = "movie_cache:genre:*"
    /\ ~last.berr
    /\ last.ret = PyInt(1)
    /\ \E k \in ToolKeys : redis[k].present /\ redis[k].raw \notin ForeignRaws

\* a caller's clear_pattern returns from its DEL in this step
ClearReturns(c) ==
    task[c].pc = "clear_delete" /\ task'[c].pc = "idle" /\ ~last'.berr

\* C12 as stated: the enumeration and the deletion of clear_pattern are
\* one step: the count returned is the number of keys enumerated, and no
\* matching key that exists when the deletion takes effect survives it.
ClearAtomic ==
    [][\A c \in Callers :
          ClearReturns(c) =>
             /\ last'.ret = PyInt(Cardinality(task[c].keys))
             /\ \A k \in AllKeys :
                   redis[k].present /\ GlobMatch(task[c].pattern, k) => ~redis'[k].present]_vars

\* C12 as amended: the deletion is one step that removes the keys
\* enumerated and no other; the count returned is the number of enumerated
\* keys still present at the deletion; a matching key written between the
\* enumeration and the deletion is left in the store.
ClearBatch ==
    [][\A c \in Callers :
          ClearReturns(c) =>
             /\ last'.ret = PyInt(Cardinality({k \in task[c].keys : redis[k].present}))
             /\ \A k \in AllKeys :
                   IF k \in task[c].keys THEN ~redis'[k].present
                   ELSE redis'[k] = redis[k]]_vars

\* C12 happens: a clear_pattern that has returned from its DEL with a
\* matching entry, written after the enumeration, in the store
ClearBatchWitness ==
    /\ last.op = "clear_pattern"
    /\ last.bcalls = 2
    /\ ~last.berr
    /\ last.ret = PyInt(1)
    /\ \E k \in ToolKeys : redis[k].present /\ GlobMatch(last.key, k)

\* the execution a returned value comes from: the call's own, or the one
\* whose result the entry holds
ValueOrigin ==
    IF last.execs = 1 THEN [src |-> last.src, readAt |-> last.readAt]
    ELSE [src |-> hist.origin[last.key].src, readAt |-> hist.origin[last.key].readAt]

\* C14 as stated: a value a memoized call returns at time t is the result
\* of an execution with the same arguments that read the data source no
\* earlier than t - ttl.
StalenessWithinTtl ==
    last.op = "call" =>
        /\ last.ret = FuncTable[<<last.fn, last.args>>, ValueOrigin.src]
        /\ ValueOrigin.readAt >= now - DecoratorTtl(last.fn)

\* C14 as amended: a value returned from the cache at time t was written
\* by a set that took effect later than t - ttl and is the result of an
\* execution with the same arguments that read the data source no later
\* than that set; a call that executes returns the result of its own
\* execution.
BoundedStaleness ==
    last.op = "call" =>
        /\ last.ret = FuncTable[<<last.fn, last.args>>, ValueOrigin.src]
        /\ last.execs = 0 =>
              /\ hist.origin[last.key].on
              /\ hist.origin[last.key].setAt > now - DecoratorTtl(last.fn)
              /\ hist.origin[last.key].readAt <= hist.origin[last.key].setAt

\* C14 happens: a value returned from the cache that was read from the
\* data source before the set that wrote it, and before a change of the
\* data source
BoundedStalenessWitness ==
    /\ last.op = "call"
    /\ last.execs = 0
    /\ hist.origin[last.key].on
    /\ hist.origin[last.key].readAt < hist.origin[last.key].setAt
    /\ hist.origin[last.key].src # source

\* C13: delete(k) on an enabled, reachable store returns True whether or
\* not k has an entry and leaves k absent, so that a get(k) right after it
\* returns None; it leaves the entries of the other keys as they were, and
\* a second delete(k) changes nothing.
DeleteIdempotent ==
    /\ [](last.op = "delete" /\ Usable /\ ~last.berr =>
            ~last.raised /\ last.ret = PyBool(TRUE) /\ ~redis[last.key].present)
    /\ [][(last'.op = "delete" /\ Usable /\ ~last'.berr) =>
            /\ \A k \in AllKeys \ {last'.key} : redis'[k] = redis[k]
            /\ (~redis[last'.key].present => redis' = redis)]_vars
    /\ [][(/\ last.op = "delete" /\ Usable /\ ~last.berr
           /\ last'.op = "get" /\ last'.key = last.key /\ ~last'.berr)
          => last'.ret = PyNone]_vars

\* C13 happens: the entry of one key deleted, the other key's still there
DeleteIdempotentWitness ==
    /\ last.op = "delete"
    /\ last.key = "test:1"
    /\ Usable
    /\ ~last.berr
    /\ last.ret = PyBool(TRUE)
    /\ hist.wrote["other:1"].on
    /\ redis["other:1"].present

\* C20: close() raises nothing in any state: on a store that never
\* connected it makes no backend call, on a connected store it closes the
\* connection, also when the connection is closed already, and an error of
\* client.close() is caught; it changes nothing else of the store.
CloseSafe ==
    /\ [](last.op = "close" =>
            /\ ~last.raised
            /\ last.ret = PyNone
            /\ (client = "None" => last.bcalls = 0 /\ conn = "none")
            /\ (client # "None" /\ ~last.berr => conn = "closed"))
    /\ [][last'.op = "close" =>
            /\ enabled' = enabled /\ client' = client /\ redis' = redis
            /\ (last'.berr => conn' = conn)]_vars

\* C20 happens: close on a connected store, the connection closed
CloseSafeWitness ==
    /\ last.op = "close"
    /\ last.bcalls = 1
    /\ ~last.berr
    /\ conn = "closed"
    /\ enabled

\* the entry holds a text that decodes to a value other than None
Decodes(e) ==
    e.present /\ e.raw # "" /\ json_loads(e.raw).ok /\ json_loads(e.raw).val # PyNone

ExpectedTtl(fn) == IF fn = "search_movies_by_title" THEN 1800 ELSE 3600

\* C16: on a miss with an enabled store the memoized call executes the
\* tool once, makes one set of the key with the result and the ttl of the
\* decorator after its one get, and returns the result of the tool itself,
\* also when that set fails.
MissPath ==
    /\ [](last.op = "call" /\ enabled /\ last.execs > 0 =>
            /\ last.execs = 1
            /\ last.bcalls = 2
            /\ last.found # ""
            /\ ~last.raised
            /\ last.ret = FuncTable[<<last.fn, last.args>>, last.src])
    /\ [][(last'.op = "call" /\ enabled /\ last'.execs > 0) =>
            LET written == [redis EXCEPT ![last'.key] =
                               Entry(Dumps(last'.ret), now + ExpectedTtl(last'.fn))]
            IN  /\ redis' \in {redis, written}
                /\ (~last'.berr => redis' = written)]_vars

\* C16 happens: a miss whose set failed and left no entry, the result of
\* the tool returned all the same
MissPathWitness ==
    /\ last.op = "call"
    /\ enabled
    /\ last.execs = 1
    /\ last.found = "absent"
    /\ last.berr
    /\ ~redis[last.key].present
    /\ last.ret = FuncTable[<<last.fn, last.args>>, last.src]

CachedTools ==
    {"search_movies_by_title", "get_movies_by_director", "get_top_rated_movies",
     "get_movies_by_genre", "get_movies_with_actor"}

UncachedTools == {"get_movies_by_year_range", "get_movie_statistics"}

\* C18: an entry written by the title search expires 1800 s after it was
\* written and one written by the director, top rated, genre or actor
\* lookup 3600 s after; a call of the year range or the statistics query
\* runs the query on the data source, makes no call to the store and
\* leaves the store as it was.
CoverageAndTtls ==
    /\ [](\A tc \in AllToolCalls :
            (tc[1] \in CachedTools /\ hist.origin[KeyTable[tc]].on) =>
                /\ redis[KeyTable[tc]].present
                /\ redis[KeyTable[tc]].exp = hist.origin[KeyTable[tc]].setAt + ExpectedTtl(tc[1])
                /\ now < redis[KeyTable[tc]].exp)
    /\ [][(last'.op = "call" /\ last'.fn \in CachedTools /\ enabled /\ last'.execs = 1) =>
            /\ last'.key = KeyTable[<<last'.fn, last'.args>>]
            /\ redis'[last'.key] = Entry(Dumps(last'.ret), now + ExpectedTtl(last'.fn))
            /\ hist'.origin[last'.key].on /\ hist'.origin[last'.key].setAt = now]_vars
    /\ [](last.op = "call" /\ last.fn \in UncachedTools =>
            /\ last.execs = 1
            /\ last.bcalls = 0
            /\ last.key = ""
            /\ ~last.raised
            /\ last.ret = FuncTable[<<last.fn, last.args>>, source])
    /\ [][(last'.op = "call" /\ last'.fn \in UncachedTools) =>
            redis' = redis /\ conn' = conn /\ task' = task /\ hist' = hist]_vars
    /\ [](\A c \in Callers : task[c].fn \notin UncachedTools)

\* C18 happens: the statistics query called on an enabled store some time
\* after the start, when the entry of the director lookup written at the
\* start is still there and that of the title search is not
CoverageAndTtlsWitness ==
    /\ last.op = "call"
    /\ last.fn = "get_movie_statistics"
    /\ enabled
    /\ last.execs = 1
    /\ now > 0
    /\ hist.origin[KeyOfCall("get_movies_by_director", <<PyStr("Mann")>>)].on
    /\ hist.origin[KeyOfCall("get_movies_by_director", <<PyStr("Mann")>>)].setAt = 0
    /\ ~redis[KeyOfCall("search_movies_by_title", <<PyStr("Heat")>>)].present

\* C19: once the process has shut down, on the path of the REST API as on
\* that of the command line loop, close() has been called on the store it
\* constructed, and no operation of the store is issued after that close.
ShutdownClosesStore ==
    /\ []((life.phase = "exited" /\ constructed) => life.closed)
    /\ [][life.closed => last'.op \in {"none", "close"}]_vars

\* the key is movie_cache:<prefix>:<digest>, the digest of hexadecimal digits
KeyForm(k, prefix) ==
    LET head == "movie_cache:" \o prefix \o ":"
    IN  /\ Len(k) > Len(head)
        /\ SubSeq(k, 1, Len(head)) = head
        /\ \A i \in (Len(head) + 1)..Len(k) :
              \E j \in 1..Len(HexDigits) : Char(HexDigits, j) = Char(k, i)

KeysWellFormed ==
    \A tc \in AllToolCalls :
        /\ KeyForm(KeyTable[tc], DecoratorPrefix(tc[1]))
        /\ GlobMatch("movie_cache:*", KeyTable[tc])

\* C21: every key of a memoized call is movie_cache:<prefix>:<digest> and
\* matches movie_cache:*; when clear_pattern() with that pattern returns
\* on a reachable store with no other writer, no entry of a memoized call
\* is left and the keys outside the namespace are as they were; with no
\* entry left, the next memoized call executes the tool.
NamespaceClear ==
    /\ [](KeysWellFormed)
    /\ [][(last'.op = "clear_pattern" /\ last'.key = "movie_cache:*" /\ Usable /\ ~last'.berr)
          => /\ \A k \in AllToolKeys : ~redis'[k].present
             /\ \A k \in DirectKeys : redis'[k] = redis[k]]_vars
    /\ [][(/\ Idle(1) /\ Usable
           /\ \A k \in AllToolKeys : ~redis[k].present
           /\ (last'.op = "call" \/ task'[1].pc = "exec"))
          => task'[1].pc = "exec"]_vars

\* C21 happens: the default clear removed the two entries of the tools
\* and a key outside the namespace is still there
NamespaceClearWitness ==
    /\ last.op = "clear_pattern"
    /\ last.key = "movie_cache:*"
    /\ last.ret = PyInt(2)
    /\ \A k \in AllToolKeys : ~redis[k].present
    /\ redis["test:1"].present

Abs(x) == IF x < 0 THEN 0 - x ELSE x

\* C22: on an enabled, reachable store a get_stats call that the backend
\* answers returns, without raising, a hit_rate that is the two-decimal
\* value nearest to H / max(H + M, 1) * 100 for the hits H and misses M it
\* reports (the even one of two equally near values): 0 when H + M = 0, and
\* always between 0 and 100.
HitRateArithmetic ==
    (last.op = "get_stats" /\ Usable /\ ~last.berr) =>
        LET v == last.ret
            H == v.vals[5].n
            M == v.vals[6].n
            r == v.vals[7].hundredths
            D == IF H + M = 0 THEN 1 ELSE H + M
        IN  /\ ~last.raised
            /\ v.keys[5] = PyStr("hits") /\ v.keys[6] = PyStr("misses")
            /\ v.keys[7] = PyStr("hit_rate") /\ v.vals[7].t = "float"
            /\ 2 * Abs(r * D - 10000 * H) <= D
            /\ (2 * Abs(r * D - 10000 * H) = D => r % 2 = 0)
            /\ (H + M = 0 => r = 0)
            /\ r >= 0 /\ r <= 10000

\* get_stats answered with 1 hit and 2 misses: 33.33
HitRateArithmeticWitness ==
    /\ last.op = "get_stats" /\ Usable /\ ~last.berr
    /\ last.ret.vals[5] = PyInt(1) /\ last.ret.vals[6] = PyInt(2)
    /\ last.ret.vals[7] = PyFloat(3333)

\* C23: with every tool wrapped with a ttl of 0 (and its keys written by
\* no one else), no entry is ever stored under a tool's key and every
\* completed call has executed the tool once, returns what the tool
\* computed from the data source during that call, and raises nothing,
\* whatever the backend did.
FreshAtZeroTtl ==
    /\ [](\A k \in ToolKeys : ~redis[k].present)
    /\ [][last'.op = "call" =>
             /\ last'.execs = 1
             /\ ~last'.raised
             /\ last'.ret = Func(last'.fn, last'.args, last'.src)
             /\ last'.found \in {"", "absent", "failed"}]_vars

\* a call on a usable store, after the clock and the data source moved on,
\* that missed, ran the tool and had its SETEX with expiry 0 refused
FreshAtZeroTtlWitness ==
    /\ last.op = "call" /\ Usable /\ last.bcalls = 2 /\ last.berr
    /\ last.found = "absent" /\ last.execs = 1
    /\ now > 0 /\ source > 1
    /\ ~redis[last.key].present

\* C24: callers of one memoized tool with the same arguments do not wait
\* for each other: a caller that missed can always execute the tool, and a
\* caller that executed can always write, whatever the other callers are
\* doing; every call that found no entry executes the tool once; and every
\* write on a usable store leaves the entry holding that writer's result
\* with the expiry counted from that write, so the last write wins.
NoSingleFlight ==
    /\ [](\A c \in Callers :
            /\ task[c].pc = "exec" => ENABLED WrapperExec(c)
            /\ task[c].pc = "set" => ENABLED WrapperSet(c, "ok"))
    /\ [][(last'.op = "call" /\ last'.found = "absent") =>
             (last'.execs = 1 /\ last'.bcalls = 2)]_vars
    /\ [][\A c \in Callers :
             (task[c].pc = "set" /\ task'[c].pc = "idle" /\ Usable) =>
                 redis'[task[c].key] = Entry(Dumps(task[c].result), now + TitleTtl)]_vars

\* two callers missed and executed; the second has written its result over
\* the entry while the first, holding another result, has yet to write
NoSingleFlightWitness ==
    /\ Usable
    /\ last.op = "call" /\ last.caller = 2 /\ last.found = "absent" /\ last.execs = 1
    /\ task[1].pc = "set" /\ task[1].found = "absent" /\ task[1].key = last.key
    /\ task[1].result # last.ret
    /\ redis[last.key].present /\ redis[last.key].raw = Dumps(last.ret)

\* C25, as stated: in any interleaving get_cache() makes at most one
\* RedisCache and every call returns that one, and get_agent() makes at
\* most one MovieAgent between startup and shutdown and every handler
\* receives that one.
SingletonAlways ==
    /\ [](life.cmade <= 1 /\ life.made <= 1)
    /\ [][(last'.op \in {"get_cache", "get_agent"} /\ ~last'.raised) =>
             last'.ret = PyInt(1)]_vars

\* C25, amended: get_agent(), called by handlers that never overlap, makes
\* at most one MovieAgent between startup and shutdown and every handler
\* that receives an agent receives that one; get_cache() makes at most one
\* RedisCache, returned by every call, as long as no call makes its null
\* check while another call is between its check and its assignment; in
\* any case it makes at most one object per caller and returns an object
\* that it or another call made.
SingletonUnlessOverlap ==
    /\ [](life.made <= 1 /\ life.inst \in {0, life.made})
    /\ [][(last'.op = "get_agent" /\ ~last'.raised) =>
             (last'.ret = PyInt(1) /\ life'.inst = 1)]_vars
    /\ [](~life.overlap => life.cmade <= 1)
    /\ [][(last'.op = "get_cache" /\ ~life'.overlap) => last'.ret = PyInt(1)]_vars
    /\ [](life.cmade <= NumCallers /\ life.cinst = life.cmade)
    /\ [][last'.op = "get_cache" =>
             (last'.ret.n >= 1 /\ last'.ret.n <= life'.cmade)]_vars

\* a handler received the agent an earlier handler made, and a call of
\* get_cache returned the one object made, no calls having overlapped
SingletonUnlessOverlapWitness ==
    /\ life.made = 1 /\ life.cmade = 1 /\ ~life.overlap
    /\ last.op = "get_agent" /\ last.execs = 0 /\ last.ret = PyInt(1)
    /\ \E c \in Callers : task[c].pc = "cache_return"

\* the state of the data source in which every query fails
DownAt == CHOOSE i \in 1..Len(SourceTimeline) : SourceTimeline[i] = "down"

\* the message a tool returns when its query failed
IsErrorMessage(v) == v.t = "str" /\ Len(v.s) >= 6 /\ SubSeq(v.s, 1, 6) = "Error "

\* C26: when a memoized tool ran while the data source was failing, its
\* error message is stored under the call's key with the tool's whole ttl
\* and returned; and as long as that entry is there, a call with the same
\* arguments returns that message without executing the tool, whatever the
\* state of the data source then.
ErrorResultsCached ==
    /\ [][(task[1].pc = "set" /\ task'[1].pc = "idle" /\ Usable /\ task[1].src = DownAt) =>
             /\ IsErrorMessage(task[1].result)
             /\ last'.ret = task[1].result
             /\ redis'[task[1].key] =
                    Entry(Dumps(task[1].result), now + ExpectedTtl(task[1].fn))]_vars
    /\ [][(/\ last'.op = "call" /\ Usable /\ task[1].pc = "idle"
            /\ redis[last'.key].present
            /\ hist.origin[last'.key].src = DownAt) =>
             /\ last'.execs = 0
             /\ IsErrorMessage(last'.ret)
             /\ last'.ret = Func(last'.fn, last'.args, DownAt)
             /\ redis' = redis]_vars
    /\ [][(Usable /\ task[1].pc = "idle" /\ task'[1].pc = "exec") =>
             ~(/\ redis[task'[1].key].present
               /\ hist.origin[task'[1].key].src = DownAt)]_vars

\* a call answered with the stored error message, some time after it was
\* stored and with the data source working again
ErrorResultsCachedWitness ==
    /\ last.op = "call" /\ Usable /\ last.execs = 0
    /\ IsErrorMessage(last.ret)
    /\ SourceTimeline[source] = "v2"
    /\ hist.origin[last.key].src = DownAt
    /\ now > hist.origin[last.key].setAt

\* C27: for a memoized operation whose result is None, every write on a
\* usable store leaves the JSON text null under the key with the expiry
\* counted from that write, and every completed call, whether it found
\* that entry or none, has executed the operation and returns None.
NoneNeverCached ==
    /\ [][(task[1].pc = "set" /\ task'[1].pc = "idle" /\ Usable /\ ~last'.berr) =>
             redis'[task[1].key] = Entry("null", now + ExpectedTtl(task[1].fn))]_vars
    /\ [][last'.op = "call" =>
             /\ last'.execs = 1 /\ last'.ret = PyNone /\ ~last'.raised
             /\ (Usable /\ ~last'.berr) => last'.found \in {"absent", "null"}]_vars
    /\ [](\A k \in ToolKeys : redis[k].present => redis[k].raw = "null")

\* a call that came upon the entry holding null an earlier call wrote,
\* executed the operation again and wrote the entry anew
NoneNeverCachedWitness ==
    /\ last.op = "call" /\ Usable /\ ~last.berr
    /\ last.found = "null" /\ last.execs = 1 /\ last.bcalls = 2
    /\ now > 0
    /\ redis[last.key] = Entry("null", now + ExpectedTtl(last.fn))

IsSuffix(a, b) == Len(a) <= Len(b) /\ a = SubSeq(b, Len(b) - Len(a) + 1, Len(b))

CliCleanup ==
    /\ [](life.entry = "cli" => life.closes <= 1)
    /\ []((life.entry = "cli" /\ life.phase = "exited") =>
            life.closes = IF life.agent THEN 1 ELSE 0)
    /\ [][life'.closes # life.closes =>
             (life.phase = "cleanup" /\ life'.phase = "exited" /\ life'.mongo = "closed")]_vars
    /\ [][(last'.op \in {"break", "interrupt"} \/ (last'.op = "query" /\ last'.raised)) =>
             (life'.phase = "cleanup" /\ life'.closes = 0)]_vars
    /\ [][(last'.op \in {"error", "empty", "help"} \/ (last'.op = "query" /\ ~last'.raised)) =>
             (life'.phase = "serving" /\ life'.closes = 0 /\ life'.mongo = "open")]_vars
    /\ [][last'.op = "query" => life.phase = "serving"]_vars
    /\ (life.entry = "cli" /\ life.phase = "cleanup") ~> (life.phase = "exited" /\ life.closes = 1)

\* the program has ended after queries were made: the agent closed once
CliCleanupWitness ==
    /\ life.entry = "cli" /\ life.phase = "exited" /\ life.agent
    /\ life.closes = 1 /\ life.mongo = "closed"
    /\ life.chat.saves >= 2
====
